---------------------------- MODULE Spec2Model ----------------------------
(***************************************************************************)
(* The command channel of the eBPF execution context driver                *)
(* (src/ebpfcore/ebpf_drv.c): the IOCTL dispatcher                         *)
(* _ebpf_driver_io_device_control, the completion callback                 *)
(* _ebpf_driver_io_device_control_complete it hands to async handlers and  *)
(* the cancel callback _ebpf_driver_io_device_control_cancel it registers  *)
(* with the framework.                                                     *)
(*                                                                         *)
(* The queue is WdfIoQueueDispatchParallel (line 305): the framework hands *)
(* a request to the dispatcher as soon as it arrives, whatever the         *)
(* requests before it are doing.  Every variable of the dispatcher is a    *)
(* local or a field of its own request, so the state is kept per request,  *)
(* and up to three threads work on each request: the dispatching thread,   *)
(* the thread on which the handler calls the completion callback, and the  *)
(* thread that cancels the I/O.  The steps of all requests interleave.     *)
(*                                                                         *)
(* The dispatcher is cut at the framework calls another thread can         *)
(* observe: validation (locals only) is one step, then the cancellation    *)
(* registration, the handler call and the calls of the Done: block.        *)
(***************************************************************************)
EXTENDS Integers, FiniteSets, Sequences, TLC

\* How many requests the callers issue; they may all be in the driver at once.
MaxRequests == 2

\* The requests, numbered in the order of their arrival.
RequestNumbers == 1 .. MaxRequests

\* sizeof(struct _ebpf_operation_header): uint16_t length + 32-bit id.
HeaderSize == 8

\* The width of the lengths handed to the handler: (uint16_t) casts.
UINT16_RANGE == 65536

IOCTL_EBPF_CTL_METHOD_BUFFERED == "IOCTL_EBPF_CTL_METHOD_BUFFERED"
IOCTL_OTHER == "IOCTL_OTHER"

ControlCodes == {IOCTL_EBPF_CTL_METHOD_BUFFERED, IOCTL_OTHER}

\* Buffer lengths a caller may pass (size_t): none, shorter than the header,
\* exactly the header, and one that does not fit 16 bits.
InputLengths == {0, HeaderSize - 1, HeaderSize, UINT16_RANGE + HeaderSize}

\* The reply size of the commands of the table that expect a reply.
ReplySize == 16

OutputLengths == {0, ReplySize - 1, ReplySize, UINT16_RANGE + ReplySize}

(***************************************************************************)
(* The command table of ebpf_core (_ebpf_protocol_handlers), reached       *)
(* through ebpf_core_get_protocol_handler_properties: one command for each *)
(* combination of the async and privilege flags, and one id that is not in *)
(* the table.                                                              *)
(***************************************************************************)
KnownIds == 0 .. 3
UnknownId == 4
CommandIds == KnownIds \cup {UnknownId}

ebpf_core_get_protocol_handler_properties(id) ==
    CASE id = 0 -> [result |-> "EBPF_SUCCESS", minimum_reply_size |-> 0,
                    async |-> FALSE, privileged |-> FALSE]
      [] id = 1 -> [result |-> "EBPF_SUCCESS", minimum_reply_size |-> ReplySize,
                    async |-> FALSE, privileged |-> TRUE]
      [] id = 2 -> [result |-> "EBPF_SUCCESS", minimum_reply_size |-> ReplySize,
                    async |-> TRUE, privileged |-> FALSE]
      [] id = 3 -> [result |-> "EBPF_SUCCESS", minimum_reply_size |-> 0,
                    async |-> TRUE, privileged |-> TRUE]
      \* Not in the table: the out parameters keep their initial values.
      [] OTHER  -> [result |-> "EBPF_OPERATION_NOT_SUPPORTED", minimum_reply_size |-> 0,
                    async |-> FALSE, privileged |-> FALSE]

\* ebpf_result_t to NTSTATUS.
ebpf_result_to_ntstatus(result) ==
    CASE result = "EBPF_SUCCESS" -> "STATUS_SUCCESS"
      [] result = "EBPF_PENDING" -> "STATUS_PENDING"
      [] result = "EBPF_INVALID_ARGUMENT" -> "STATUS_INVALID_PARAMETER"
      [] result = "EBPF_NO_MEMORY" -> "STATUS_INSUFFICIENT_RESOURCES"
      [] result = "EBPF_OPERATION_NOT_SUPPORTED" -> "STATUS_NOT_SUPPORTED"
      [] result = "EBPF_ACCESS_DENIED" -> "STATUS_ACCESS_DENIED"
      [] result = "EBPF_INSUFFICIENT_BUFFER" -> "STATUS_BUFFER_TOO_SMALL"
      [] result = "EBPF_CANCELED" -> "STATUS_CANCELLED"
      [] OTHER -> "STATUS_UNSUCCESSFUL"

\* NT_SUCCESS(status): the success and informational codes, STATUS_PENDING among them.
NT_SUCCESS(st) == st \in {"STATUS_SUCCESS", "STATUS_PENDING"}

(***************************************************************************)
(* What a handler may give back through ebpf_core_invoke_protocol_handler. *)
(* The handlers are part of ebpf_core; the dispatcher takes whatever       *)
(* ebpf_result_t they return (line 506) or complete with (line 359) and    *)
(* converts it.  A sync handler returns its result, a failure the          *)
(* conversion has no status of its own for (EBPF_FAILED) among them.  An   *)
(* async handler returns pending and later calls the completion callback   *)
(* once, or returns at once: with an error, or with success, which nothing *)
(* but the assertion of line 534 speaks against.                           *)
(***************************************************************************)
SyncResults == {"EBPF_SUCCESS", "EBPF_INVALID_ARGUMENT", "EBPF_NO_MEMORY", "EBPF_FAILED"}
AsyncResults == {"EBPF_PENDING", "EBPF_INVALID_ARGUMENT", "EBPF_SUCCESS"}
CompletionResults == {"EBPF_SUCCESS", "EBPF_NO_MEMORY", "EBPF_FAILED"}

(***************************************************************************)
(* WdfRequestRetrieveInputBuffer / WdfRequestRetrieveOutputBuffer on a     *)
(* METHOD_BUFFERED request: the system buffer and its length, or           *)
(* STATUS_BUFFER_TOO_SMALL when the buffer is empty or shorter than the    *)
(* minimum the driver asks for.  The dispatcher asks for the length the    *)
(* framework gave it, so the retrieval of a non-empty buffer succeeds, and *)
(* a successful retrieval yields a buffer: the NULL tests of lines 435 and *)
(* 480 never hold.                                                         *)
(***************************************************************************)
WdfRequestRetrieveBuffer(buffer_length, minimum_required_length) ==
    IF buffer_length = 0 \/ buffer_length < minimum_required_length
    THEN [status |-> "STATUS_BUFFER_TOO_SMALL", length |-> 0]
    ELSE [status |-> "STATUS_SUCCESS", length |-> buffer_length]

VARIABLES
    delivered,                \* requests delivered so far
    \* Each of the following is a function of the request number.
    req,                      \* the request: io_control_code, lengths, header id
    pc,                       \* where the dispatching thread is
    status,                   \* dispatcher local: NTSTATUS status
    async,                    \* dispatcher local: bool async
    privileged,               \* dispatcher local: bool privileged
    minimum_reply_size,       \* dispatcher local
    actual_input_length,      \* dispatcher local
    actual_output_length,     \* dispatcher local
    wdf_request_ref_acquired, \* dispatcher local
    caller_answer,            \* what _ebpf_driver_is_caller_privileged said: unasked, yes, no
    reject,                   \* the validation check that rejected the request, or "none"
    ref_count,                \* the request object's extra references (WdfObjectReference)
    cancelable,               \* the request is marked cancelable
    mark_calls,               \* calls of WdfRequestMarkCancelable
    irp_cancel,               \* the caller has asked to cancel the I/O
    cancel_pc,                \* the framework's call of the cancel callback: idle, callback, done
    cancel_at,                \* what the request was when the cancel arrived: none, uncompleted, completed
    completions,              \* calls of WdfRequestCompleteWithInformation
    completed_status,         \* the status the caller sees
    completed_information,    \* the length the caller sees
    completed_by,             \* the path that completed: dispatcher or callback
    handler_calls,            \* calls of ebpf_core_invoke_protocol_handler
    handler_result,           \* what the handler returned
    handler_input_length,     \* the input length the handler was given
    handler_output_length,    \* the output length the handler was given
    handler_state,            \* idle, pending (owes a completion), completed
    cancel_hints,             \* calls of ebpf_core_cancel_protocol_handler that reached a pending handler
    cb_pc,                    \* where the completion callback is: idle, complete, dereference, done
    cb_result,                \* the completion callback's result argument
    cb_length                 \* the completion callback's output_buffer_length argument

dispatcher_vars == <<pc, status, async, privileged, minimum_reply_size, actual_input_length,
                     actual_output_length, wdf_request_ref_acquired, caller_answer, reject>>
request_vars == <<ref_count, cancelable, mark_calls, completions, completed_status,
                  completed_information, completed_by>>
cancel_vars == <<irp_cancel, cancel_pc, cancel_at>>
handler_vars == <<handler_calls, handler_result, handler_input_length, handler_output_length,
                  handler_state, cancel_hints>>
callback_vars == <<cb_pc, cb_result, cb_length>>

vars == <<delivered, req, dispatcher_vars, request_vars, cancel_vars, handler_vars, callback_vars>>

(***************************************************************************)
(* The hook-attachment resource of netebpfext: one WFP filter context      *)
(* (net_ebpf_extension_wfp_filter_context_t, net_ebpf_ext.h lines 126-145) *)
(* of one hook provider, the clients attached to it and the WFP filters    *)
(* (rules) installed for it.  The header holds the structures, the         *)
(* constants and the reference macros; the bodies of the functions it      *)
(* declares are not part of this source tree and follow the specification. *)
(***************************************************************************)
\* net_ebpf_ext.h lines 37-38.
NET_EBPF_EXT_MAX_CLIENTS_PER_HOOK_MULTI_ATTACH == 16
NET_EBPF_EXT_MAX_CLIENTS_PER_HOOK_SINGLE_ATTACH == 1

\* net_ebpf_ext_wfp_filter_state_t, lines 110-117.
NET_EBPF_EXT_WFP_FILTER_ADDED == 1
NET_EBPF_EXT_WFP_FILTER_DELETING == 2
NET_EBPF_EXT_WFP_FILTER_DELETED == 3
NET_EBPF_EXT_WFP_FILTER_DELETE_FAILED == 4

\* The capacities a filter context is created with.
Capacities == {NET_EBPF_EXT_MAX_CLIENTS_PER_HOOK_SINGLE_ATTACH,
               NET_EBPF_EXT_MAX_CLIENTS_PER_HOOK_MULTI_ATTACH}

\* An empty slot of client_contexts.
NULL == 0

\* The hook clients: one more than the largest capacity.
Clients == 1 .. (NET_EBPF_EXT_MAX_CLIENTS_PER_HOOK_MULTI_ATTACH + 1)

\* The clients that attach while rules are installed and deleted.
MaxLifecycleClients == 2
LifecycleClients == 1 .. MaxLifecycleClients

\* The largest number of rules of one add_rules call, the calls of add_rules on
\* one filter context, and the detach calls of a run of the client array.
MaxRules == 3
MaxAddCalls == 1
MaxDetachCalls == 2

\* The status of a rule deletion the filtering platform refuses.
DeleteErrors == {"STATUS_FWP_IN_USE"}

VARIABLES
    filter_context,           \* the context's memory: NULL, allocated, freed
    reference_count,          \* filter_context->reference_count
    client_context_count_max, \* filter_context->client_context_count_max
    client_contexts,          \* filter_context->client_contexts: slot -> client or NULL
    client_context_count,     \* filter_context->client_context_count
    provider_reference,       \* the context holds its rundown reference on provider_context
    rundown_count,            \* the provider's rundown references
    rundown_state,            \* the provider's rundown: active, waiting, completed
    filter_ids,               \* filter_context->filter_ids: records [id, state, error_code]
    context_deleting,         \* filter_context->context_deleting
    filter_cleanup_list,      \* the contexts on the filter cleanup list
    wfp_filters,              \* the ids of the filters the filtering platform holds
    wfp_deleting,             \* the ids whose deletion the platform has accepted and not notified
    add,                      \* add_wfp_filters in progress: pc, count, failing index, local_filter_ids
    delete_pc,                \* wfp_filter_context_cleanup in progress: pc and index
    finalize_pc,              \* the thread whose decrement reached zero: idle, leave_rundown, cleanup_list, free, done
    free_count,               \* calls of ExFreePool(filter_context)
    leave_count,              \* calls of net_ebpf_extension_hook_provider_leave_rundown for the context
    delete_requests,          \* rule id -> deletions asked of the platform
    call,                     \* the last operation on the context and its result
    snapshot,                 \* the client array before the last successful attach
    add_calls,                \* calls of add_wfp_filters
    detach_calls,             \* detach calls counted by the run of the client array
    provider_context_cleanup_list, \* the provider contexts on the provider cleanup list
    signal_empty_filter_list, \* cleanup state: the cleanup event is to be signaled
    wfp_filter_cleanup_event, \* cleanup state: the event is signaled
    signal_count,             \* calls of KeSetEvent on the cleanup event
    drain_pc,                 \* the wait for the cleanup: pc, and the items it waits for
    drain_result              \* what the wait returned: none, Drained, TimedOut

client_vars == <<client_context_count_max, client_contexts, client_context_count>>
provider_vars == <<provider_reference, rundown_count, rundown_state, leave_count>>
wfp_vars == <<wfp_filters, wfp_deleting, delete_requests>>
drain_vars == <<provider_context_cleanup_list, signal_empty_filter_list, drain_pc, drain_result>>
signal_vars == <<wfp_filter_cleanup_event, signal_count>>
filter_vars == <<filter_context, reference_count, client_vars, provider_vars, filter_ids,
                 context_deleting, filter_cleanup_list, wfp_vars, add, delete_pc,
                 drain_vars, signal_vars,
                 finalize_pc, free_count, call, snapshot, add_calls, detach_calls>>

\* The one filter context of the provider.
FilterContext == 1

NoCall == [op |-> "none", client |-> NULL, result |-> "none"]
NoSnapshot == [client |-> NULL, count |-> 0, contexts |-> <<>>, closed |-> FALSE]
NoAdd == [pc |-> "idle", count |-> 0, fail_at |-> 0, local_filter_ids |-> <<>>]

\* No filter context yet: the provider is registered and nothing is attached.
FilterInit ==
    /\ filter_context = "NULL"
    /\ reference_count = 0
    /\ client_context_count_max = 0
    /\ client_contexts = <<>>
    /\ client_context_count = 0
    /\ provider_reference = FALSE
    /\ rundown_count = 0
    /\ rundown_state = "active"
    /\ filter_ids = <<>>
    /\ context_deleting = FALSE
    /\ filter_cleanup_list = {}
    /\ wfp_filters = {}
    /\ wfp_deleting = {}
    /\ add = NoAdd
    /\ delete_pc = [pc |-> "idle", index |-> 0]
    /\ finalize_pc = "idle"
    /\ free_count = 0
    /\ leave_count = 0
    /\ delete_requests = <<>>
    /\ call = NoCall
    /\ snapshot = NoSnapshot
    /\ add_calls = 0
    /\ detach_calls = 0
    /\ provider_context_cleanup_list = {}
    /\ signal_empty_filter_list = FALSE
    /\ wfp_filter_cleanup_event = FALSE
    /\ signal_count = 0
    /\ drain_pc = [pc |-> "idle", pending |-> 0, filters |-> 0]
    /\ drain_result = "none"

(***************************************************************************)
(* The life of the driver, ebpf_drv.c: DriverEntry and                     *)
(* _ebpf_driver_initialize_objects (lines 265-343, 544-577) build the      *)
(* device, the queue and the privileged security descriptor;               *)
(* _ebpf_driver_is_caller_privileged (lines 370-393) reads the descriptor; *)
(* _ebpf_driver_unload (lines 63-76) frees it.  The I/O manager opens the  *)
(* control device only once its initialization is finished, and unloads    *)
(* the driver only when no file object of the device is left.              *)
(***************************************************************************)
\* The file objects user mode may have open on the device at a time, and the
\* privilege checks that are counted.
MaxFiles == 3
MaxPrivilegeChecks == 2
Files == 1 .. MaxFiles

VARIABLES
    driver_pc,                \* where DriverEntry or the unload routine is
    ebpf_execution_context_privileged_security_descriptor,  \* NULL or allocated
    accepting,                \* the device is open for create requests
    _ebpf_driver_unloading_flag,
    core_initialized,         \* ebpf_core_initiate succeeded and ebpf_core_terminate has not run
    build_count,              \* successful builds of the descriptor
    file,                     \* each file object: closed, open, dispatch, checked
    privilege_checks,         \* calls of _ebpf_driver_is_caller_privileged
    null_reads                \* of which with the descriptor NULL

driver_vars == <<driver_pc, ebpf_execution_context_privileged_security_descriptor, accepting,
                 _ebpf_driver_unloading_flag, core_initialized, build_count, file,
                 privilege_checks, null_reads>>

\* The statics of lines 22-23 and 44, and DriverEntry about to run.
DriverInit ==
    /\ driver_pc = "driver_create"
    /\ ebpf_execution_context_privileged_security_descriptor = "NULL"
    /\ accepting = FALSE
    /\ _ebpf_driver_unloading_flag = FALSE
    /\ core_initialized = FALSE
    /\ build_count = 0
    /\ file = [f \in Files |-> "closed"]
    /\ privilege_checks = 0
    /\ null_reads = 0

all_vars == <<vars, filter_vars, driver_vars>>

\* A request with the command channel's control code.
Command(id, input_buffer_length, output_buffer_length) ==
    [io_control_code |-> IOCTL_EBPF_CTL_METHOD_BUFFERED,
     input_buffer_length |-> input_buffer_length,
     output_buffer_length |-> output_buffer_length, id |-> id]

\* The lengths that do not fit 16 bits.
LargeInputLength == UINT16_RANGE + HeaderSize
LargeOutputLength == UINT16_RANGE + ReplySize

(***************************************************************************)
(* The requests the callers issue.  Several requests are in the driver at  *)
(* once, so the set is kept small: every command id with each input length *)
(* that fits 16 bits; the sync commands and the async command that expects *)
(* a reply with each output capacity that fits 16 bits; the sync commands  *)
(* with buffers that do not fit 16 bits; and a request with another        *)
(* control code.                                                           *)
(***************************************************************************)
InputVariations ==
    {Command(id, n, ReplySize) : id \in CommandIds, n \in InputLengths \ {LargeInputLength}}

OutputVariations ==
    LET ids == {id \in KnownIds :
                  LET row == ebpf_core_get_protocol_handler_properties(id)
                  IN  ~row.async \/ row.minimum_reply_size > 0}
    IN  {Command(id, HeaderSize, n) : id \in ids, n \in OutputLengths \ {LargeOutputLength}}

LargeRequests ==
    LET ids == {id \in KnownIds : ~ebpf_core_get_protocol_handler_properties(id).async}
    IN  {Command(id, LargeInputLength, LargeOutputLength) : id \in ids}

OtherControlCodes ==
    {[io_control_code |-> code, input_buffer_length |-> HeaderSize,
      output_buffer_length |-> ReplySize, id |-> 0] : code \in ControlCodes \ {IOCTL_EBPF_CTL_METHOD_BUFFERED}}

Requests == InputVariations \cup OutputVariations \cup LargeRequests \cup OtherControlCodes

NoRequest == [io_control_code |-> IOCTL_OTHER, input_buffer_length |-> 0,
              output_buffer_length |-> 0, id |-> 0]

\* No request has arrived.  Each request that will arrive is in the state the
\* framework hands it over in, and the dispatcher's locals are what lines
\* 403-413 initialise them to.
DispatcherInit ==
    /\ delivered = 0
    /\ req = [i \in RequestNumbers |-> NoRequest]
    /\ pc = [i \in RequestNumbers |-> "none"]
    /\ status = [i \in RequestNumbers |-> "STATUS_SUCCESS"]
    /\ async = [i \in RequestNumbers |-> FALSE]
    /\ privileged = [i \in RequestNumbers |-> FALSE]
    /\ minimum_reply_size = [i \in RequestNumbers |-> 0]
    /\ actual_input_length = [i \in RequestNumbers |-> 0]
    /\ actual_output_length = [i \in RequestNumbers |-> 0]
    /\ wdf_request_ref_acquired = [i \in RequestNumbers |-> FALSE]
    /\ caller_answer = [i \in RequestNumbers |-> "unasked"]
    /\ reject = [i \in RequestNumbers |-> "none"]
    /\ ref_count = [i \in RequestNumbers |-> 0]
    /\ cancelable = [i \in RequestNumbers |-> FALSE]
    /\ mark_calls = [i \in RequestNumbers |-> 0]
    /\ irp_cancel = [i \in RequestNumbers |-> FALSE]
    /\ cancel_pc = [i \in RequestNumbers |-> "idle"]
    /\ cancel_at = [i \in RequestNumbers |-> "none"]
    /\ completions = [i \in RequestNumbers |-> 0]
    /\ completed_status = [i \in RequestNumbers |-> "none"]
    /\ completed_information = [i \in RequestNumbers |-> 0]
    /\ completed_by = [i \in RequestNumbers |-> "none"]
    /\ handler_calls = [i \in RequestNumbers |-> 0]
    /\ handler_result = [i \in RequestNumbers |-> "none"]
    /\ handler_input_length = [i \in RequestNumbers |-> 0]
    /\ handler_output_length = [i \in RequestNumbers |-> 0]
    /\ handler_state = [i \in RequestNumbers |-> "idle"]
    /\ cancel_hints = [i \in RequestNumbers |-> 0]
    /\ cb_pc = [i \in RequestNumbers |-> "idle"]
    /\ cb_result = [i \in RequestNumbers |-> "none"]
    /\ cb_length = [i \in RequestNumbers |-> 0]

Init ==
    /\ DispatcherInit
    /\ FilterInit
    /\ DriverInit

(***************************************************************************)
(* A request arrives and the framework calls EvtIoDeviceControl for it at  *)
(* once: the queue dispatches in parallel, so the requests before it may   *)
(* still be in the dispatcher, pending in their handlers or in their       *)
(* callbacks.                                                              *)
(***************************************************************************)
Deliver(r) ==
    /\ delivered < MaxRequests
    /\ delivered' = delivered + 1
    /\ req' = [req EXCEPT ![delivered + 1] = r]
    /\ pc' = [pc EXCEPT ![delivered + 1] = "validate"]
    /\ UNCHANGED <<status, async, privileged, minimum_reply_size, actual_input_length,
                   actual_output_length, wdf_request_ref_acquired, caller_answer, reject,
                   request_vars, cancel_vars, handler_vars, callback_vars>>

(***************************************************************************)
(* The checks of the dispatcher, lines 417-497, each as the condition the  *)
(* code tests.                                                             *)
(***************************************************************************)
\* Line 421: if (input_buffer_length != 0) ... else "Zero length input buffer".
ZeroLengthInput(input_buffer_length) == input_buffer_length = 0

\* A dispatcher that forgets the header-size check.
InputTooSmallNever(length) == FALSE

\* Line 448: actual_input_length < sizeof(struct _ebpf_operation_header).
InputTooSmall(length) == length < HeaderSize

\* A dispatcher that ignores the status of the table lookup.
LookupFailedIgnored(st) == FALSE

\* Line 457: status != STATUS_SUCCESS after the table lookup.
LookupFailed(st) == st # "STATUS_SUCCESS"

\* A dispatcher that asks the caller's privilege and drops the answer.
CallerDeniedNever(is_privileged_command, caller_is_privileged) == FALSE

\* Line 463: privileged && !_ebpf_driver_is_caller_privileged().
CallerDenied(is_privileged_command, caller_is_privileged) ==
    is_privileged_command /\ ~caller_is_privileged

\* Line 471: minimum_reply_size > 0, the reply buffer is looked at.
ReplyExpected(min_reply) == min_reply > 0

\* A dispatcher that retrieves the reply buffer and does not compare its length.
OutputTooSmallNever(length, min_reply) == FALSE

\* Line 490: actual_output_length < minimum_reply_size.
OutputTooSmall(length, min_reply) == length < min_reply

\* A dispatcher that reports every rejection with the status of a request that
\* is not for this device.
RejectedAsDeviceRequest(st, why, props, asked, in_length, out_length) ==
    [status |-> IF why = "none" THEN st ELSE "STATUS_INVALID_DEVICE_REQUEST",
     reject |-> why, async |-> props.async, privileged |-> props.privileged,
     minimum_reply_size |-> props.minimum_reply_size, asked |-> asked,
     actual_input_length |-> in_length, actual_output_length |-> out_length]

Rejected(st, why, props, asked, in_length, out_length) ==
    [status |-> st, reject |-> why, async |-> props.async, privileged |-> props.privileged,
     minimum_reply_size |-> props.minimum_reply_size, asked |-> asked,
     actual_input_length |-> in_length, actual_output_length |-> out_length]

Accepted(props, asked, in_length, out_length) ==
    Rejected("STATUS_SUCCESS", "none", props, asked, in_length, out_length)

\* The out parameters of the lookup before it is made (lines 411-412, 443-444).
NoProperties == [result |-> "EBPF_SUCCESS", minimum_reply_size |-> 0,
                 async |-> FALSE, privileged |-> FALSE]

\* Whether the dispatch of r gets as far as asking _ebpf_driver_is_caller_privileged:
\* the && of line 463 asks only for a command the table marks privileged.
AsksCaller(r) ==
    /\ r.io_control_code = IOCTL_EBPF_CTL_METHOD_BUFFERED
    /\ ~ZeroLengthInput(r.input_buffer_length)
    /\ LET input == WdfRequestRetrieveBuffer(r.input_buffer_length, r.input_buffer_length)
           props == ebpf_core_get_protocol_handler_properties(r.id)
       IN  /\ NT_SUCCESS(input.status)
           /\ ~InputTooSmall(input.length)
           /\ ~LookupFailed(ebpf_result_to_ntstatus(props.result))
           /\ props.privileged

\* A dispatcher that looks at the reply buffer before it checks the caller's
\* privilege.
ValidationChecksReplyFirst(r, caller_is_privileged) ==
    IF r.io_control_code # IOCTL_EBPF_CTL_METHOD_BUFFERED
    THEN Rejected("STATUS_INVALID_DEVICE_REQUEST", "control_code", NoProperties, FALSE, 0, 0)
    ELSE IF ZeroLengthInput(r.input_buffer_length)
    THEN Rejected("STATUS_INVALID_PARAMETER", "zero_length", NoProperties, FALSE, 0, 0)
    ELSE LET input == WdfRequestRetrieveBuffer(r.input_buffer_length, r.input_buffer_length) IN
    IF ~NT_SUCCESS(input.status)
    THEN Rejected(input.status, "input_buffer", NoProperties, FALSE, input.length, 0)
    ELSE IF InputTooSmall(input.length)
    THEN Rejected("STATUS_INVALID_PARAMETER", "short_input", NoProperties, FALSE, input.length, 0)
    ELSE LET props == ebpf_core_get_protocol_handler_properties(r.id)
             lookup == ebpf_result_to_ntstatus(props.result)
             output == IF ReplyExpected(props.minimum_reply_size)
                       THEN WdfRequestRetrieveBuffer(r.output_buffer_length,
                                                     r.output_buffer_length)
                       ELSE [status |-> "STATUS_SUCCESS", length |-> 0] IN
    IF LookupFailed(lookup)
    THEN Rejected(lookup, "unknown_command", props, FALSE, input.length, 0)
    ELSE IF ~NT_SUCCESS(output.status)
    THEN Rejected(output.status, "output_buffer", props, FALSE, input.length, output.length)
    ELSE IF ReplyExpected(props.minimum_reply_size)
            /\ OutputTooSmall(output.length, props.minimum_reply_size)
    THEN Rejected("STATUS_BUFFER_TOO_SMALL", "reply_capacity", props, FALSE,
                  input.length, output.length)
    ELSE IF CallerDenied(props.privileged, caller_is_privileged)
    THEN Rejected("STATUS_ACCESS_DENIED", "privilege", props, TRUE, input.length,
                  output.length)
    ELSE Accepted(props, props.privileged, input.length, output.length)

\* Lines 417-497 and 520-529: the status and the locals validation leaves behind.
\* caller_is_privileged is the answer of _ebpf_driver_is_caller_privileged (SeAccessCheck).
Validation(r, caller_is_privileged) ==
    IF r.io_control_code # IOCTL_EBPF_CTL_METHOD_BUFFERED
    THEN Rejected("STATUS_INVALID_DEVICE_REQUEST", "control_code", NoProperties, FALSE, 0, 0)
    ELSE IF ZeroLengthInput(r.input_buffer_length)
    THEN Rejected("STATUS_INVALID_PARAMETER", "zero_length", NoProperties, FALSE, 0, 0)
    ELSE LET input == WdfRequestRetrieveBuffer(r.input_buffer_length, r.input_buffer_length) IN
    IF ~NT_SUCCESS(input.status)
    THEN Rejected(input.status, "input_buffer", NoProperties, FALSE, input.length, 0)
    ELSE IF InputTooSmall(input.length)
    THEN Rejected("STATUS_INVALID_PARAMETER", "short_input", NoProperties, FALSE, input.length, 0)
    ELSE LET props == ebpf_core_get_protocol_handler_properties(r.id)
             lookup == ebpf_result_to_ntstatus(props.result) IN
    IF LookupFailed(lookup)
    THEN Rejected(lookup, "unknown_command", props, FALSE, input.length, 0)
    ELSE IF CallerDenied(props.privileged, caller_is_privileged)
    THEN Rejected("STATUS_ACCESS_DENIED", "privilege", props, TRUE, input.length, 0)
    ELSE IF ~ReplyExpected(props.minimum_reply_size)
    THEN Accepted(props, props.privileged, input.length, 0)
    ELSE LET output == WdfRequestRetrieveBuffer(r.output_buffer_length, r.output_buffer_length) IN
    IF ~NT_SUCCESS(output.status)
    THEN Rejected(output.status, "output_buffer", props, props.privileged, input.length, output.length)
    ELSE IF OutputTooSmall(output.length, props.minimum_reply_size)
    THEN Rejected("STATUS_BUFFER_TOO_SMALL", "reply_capacity", props, props.privileged,
                  input.length, output.length)
    ELSE Accepted(props, props.privileged, input.length, output.length)

\* A dispatcher that registers the cancellation of an async command before it
\* looks at the outcome of validation.
AfterValidationMarksFirst(is_rejected, is_async) ==
    IF is_async THEN "mark_cancelable" ELSE IF is_rejected THEN "Done" ELSE "invoke"

\* A dispatcher that takes the reference and registers the cancellation for
\* every accepted command, sync ones too.
AfterValidationMarksAll(is_rejected, is_async) ==
    IF is_rejected THEN "Done" ELSE "mark_cancelable"

\* A dispatcher that invokes the handler of an async command without the
\* reference and the cancellation registration.
AfterValidationNeverMarks(is_rejected, is_async) ==
    IF is_rejected THEN "Done" ELSE "invoke"

\* Where the dispatcher goes from validation: every failed check is a goto Done
\* (lines 432-494, 523, 528); line 499, if (async), guards the registration.
AfterValidation(is_rejected, is_async) ==
    IF is_rejected THEN "Done" ELSE IF is_async THEN "mark_cancelable" ELSE "invoke"

\* The dispatching thread runs lines 403-497 (and 520-529): locals only.
Validate(i) ==
    /\ pc[i] = "validate"
    /\ \E caller_is_privileged \in (IF AsksCaller(req[i]) THEN BOOLEAN ELSE {FALSE}) :
         LET v == Validation(req[i], caller_is_privileged) IN
         /\ status' = [status EXCEPT ![i] = v.status]
         /\ reject' = [reject EXCEPT ![i] = v.reject]
         /\ async' = [async EXCEPT ![i] = v.async]
         /\ privileged' = [privileged EXCEPT ![i] = v.privileged]
         /\ minimum_reply_size' = [minimum_reply_size EXCEPT ![i] = v.minimum_reply_size]
         /\ actual_input_length' = [actual_input_length EXCEPT ![i] = v.actual_input_length]
         /\ actual_output_length' = [actual_output_length EXCEPT ![i] = v.actual_output_length]
         /\ caller_answer' = [caller_answer EXCEPT ![i] = IF ~v.asked THEN "unasked" ELSE IF caller_is_privileged THEN "yes" ELSE "no"]
         /\ pc' = [pc EXCEPT ![i] = AfterValidation(v.reject # "none", v.async)]
    /\ UNCHANGED <<delivered, req, wdf_request_ref_acquired, request_vars, cancel_vars,
                   handler_vars, callback_vars>>


(***************************************************************************)
(* ebpf_core_cancel_protocol_handler(request): the hint reaches the        *)
(* handler only while the handler owes a completion for that request; for  *)
(* a request no handler is working on it finds nothing and does nothing.   *)
(***************************************************************************)
ebpf_core_cancel_protocol_handler(i, hints) ==
    IF handler_state[i] = "pending" THEN hints + 1 ELSE hints

(***************************************************************************)
(* Lines 499-504: WdfObjectReference, WdfRequestMarkCancelable.  When the  *)
(* I/O has been cancelled already, the framework calls the cancel callback *)
(* before WdfRequestMarkCancelable returns and the request stays           *)
(* uncancelable.                                                           *)
(***************************************************************************)
MarkCancelable(i) ==
    /\ pc[i] = "mark_cancelable"
    /\ ref_count' = [ref_count EXCEPT ![i] = ref_count[i] + 1]
    /\ mark_calls' = [mark_calls EXCEPT ![i] = mark_calls[i] + 1]
    /\ IF irp_cancel[i]
       THEN /\ cancelable' = [cancelable EXCEPT ![i] = FALSE]
            /\ cancel_pc' = [cancel_pc EXCEPT ![i] = "done"]
            /\ cancel_hints' = [cancel_hints EXCEPT ![i] = ebpf_core_cancel_protocol_handler(i, cancel_hints[i])]
       ELSE /\ cancelable' = [cancelable EXCEPT ![i] = TRUE]
            /\ UNCHANGED <<cancel_pc, cancel_hints>>
    /\ wdf_request_ref_acquired' = [wdf_request_ref_acquired EXCEPT ![i] = TRUE]
    /\ pc' = [pc EXCEPT ![i] = "invoke"]
    /\ UNCHANGED <<delivered, req, status, async, privileged, minimum_reply_size,
                   actual_input_length, actual_output_length, caller_answer, reject,
                   completions, completed_status, completed_information, completed_by,
                   irp_cancel, cancel_at, handler_calls, handler_result,
                   handler_input_length, handler_output_length, handler_state,
                   callback_vars>>

(***************************************************************************)
(* Lines 506-517: ebpf_core_invoke_protocol_handler with the lengths cast  *)
(* to uint16_t.  A handler that returns pending owes one call of the       *)
(* completion callback.                                                    *)
(***************************************************************************)
InvokeHandler(i) ==
    /\ pc[i] = "invoke"
    /\ \E result \in (IF async[i] THEN AsyncResults ELSE SyncResults) :
         /\ handler_result' = [handler_result EXCEPT ![i] = result]
         /\ handler_state' = [handler_state EXCEPT ![i] = IF result = "EBPF_PENDING" THEN "pending" ELSE "returned"]
         /\ status' = [status EXCEPT ![i] = ebpf_result_to_ntstatus(result)]
    /\ handler_calls' = [handler_calls EXCEPT ![i] = handler_calls[i] + 1]
    /\ handler_input_length' = [handler_input_length EXCEPT ![i] = actual_input_length[i] % UINT16_RANGE]
    /\ handler_output_length' = [handler_output_length EXCEPT ![i] = actual_output_length[i] % UINT16_RANGE]
    /\ pc' = [pc EXCEPT ![i] = "Done"]
    /\ UNCHANGED <<delivered, req, async, privileged, minimum_reply_size, actual_input_length,
                   actual_output_length, wdf_request_ref_acquired, caller_answer, reject,
                   request_vars, cancel_vars, cancel_hints, callback_vars>>

(***************************************************************************)
(* The Done: block, lines 531-541.                                         *)
(***************************************************************************)
\* A Done: block that completes whatever the status, pending too.
NeedsCompletionAlways(st) == TRUE

\* A Done: block that returns without completing a request of another control code.
NeedsCompletionForCommands(st) ==
    st # "STATUS_PENDING" /\ st # "STATUS_INVALID_DEVICE_REQUEST"

\* Line 532: if (status != STATUS_PENDING).
NeedsCompletion(st) == st # "STATUS_PENDING"

\* status == STATUS_PENDING: the dispatcher returns and leaves the request alone.
DonePending(i) ==
    /\ pc[i] = "Done"
    /\ ~NeedsCompletion(status[i])
    /\ pc' = [pc EXCEPT ![i] = "returned"]
    /\ UNCHANGED <<delivered, req, status, async, privileged, minimum_reply_size,
                   actual_input_length, actual_output_length, wdf_request_ref_acquired,
                   caller_answer, reject, request_vars, cancel_vars, handler_vars,
                   callback_vars>>

\* A failure path that leaves the request marked cancelable.
DoneWithoutUnmark(i) ==
    /\ pc[i] = "Done"
    /\ NeedsCompletion(status[i])
    /\ wdf_request_ref_acquired[i]
    /\ pc' = [pc EXCEPT ![i] = "done_dereference"]
    /\ UNCHANGED <<delivered, req, status, async, privileged, minimum_reply_size,
                   actual_input_length, actual_output_length, wdf_request_ref_acquired,
                   caller_answer, reject, request_vars, cancel_vars, handler_vars,
                   callback_vars>>

\* Lines 533-536: the handler of an async command has returned at once,
\* WdfRequestUnmarkCancelable.  Line 534 asserts that it returned an error.
\* The assertion changes no state: where it is compiled in and fails the
\* thread stops at it, a behaviour that takes no further step for the request;
\* otherwise the path is the same whatever was returned.
DoneUnmark(i) ==
    /\ pc[i] = "Done"
    /\ NeedsCompletion(status[i])
    /\ wdf_request_ref_acquired[i]
    /\ cancelable' = [cancelable EXCEPT ![i] = FALSE]
    /\ pc' = [pc EXCEPT ![i] = "done_dereference"]
    /\ UNCHANGED <<delivered, req, status, async, privileged, minimum_reply_size,
                   actual_input_length, actual_output_length, wdf_request_ref_acquired,
                   caller_answer, reject, ref_count, mark_calls, completions,
                   completed_status, completed_information, completed_by, cancel_vars,
                   handler_vars, callback_vars>>

\* A failure path that keeps the request reference.
DoneWithoutDereference(i) ==
    /\ pc[i] = "done_dereference"
    /\ pc' = [pc EXCEPT ![i] = "done_complete"]
    /\ UNCHANGED <<delivered, req, status, async, privileged, minimum_reply_size,
                   actual_input_length, actual_output_length, wdf_request_ref_acquired,
                   caller_answer, reject, request_vars, cancel_vars, handler_vars,
                   callback_vars>>

\* Line 537: WdfObjectDereference.
DoneDereference(i) ==
    /\ pc[i] = "done_dereference"
    /\ ref_count' = [ref_count EXCEPT ![i] = ref_count[i] - 1]
    /\ pc' = [pc EXCEPT ![i] = "done_complete"]
    /\ UNCHANGED <<delivered, req, status, async, privileged, minimum_reply_size,
                   actual_input_length, actual_output_length, wdf_request_ref_acquired,
                   caller_answer, reject, cancelable, mark_calls, completions,
                   completed_status, completed_information, completed_by, cancel_vars,
                   handler_vars, callback_vars>>

\* Line 539: WdfRequestCompleteWithInformation(request, status, output_buffer_length).
DoneComplete(i) ==
    /\ \/ pc[i] = "Done" /\ NeedsCompletion(status[i]) /\ ~wdf_request_ref_acquired[i]
       \/ pc[i] = "done_complete"
    /\ completions' = [completions EXCEPT ![i] = completions[i] + 1]
    /\ completed_status' = [completed_status EXCEPT ![i] = status[i]]
    /\ completed_information' = [completed_information EXCEPT ![i] = req[i].output_buffer_length]
    /\ completed_by' = [completed_by EXCEPT ![i] = "dispatcher"]
    /\ pc' = [pc EXCEPT ![i] = "returned"]
    /\ UNCHANGED <<delivered, req, status, async, privileged, minimum_reply_size,
                   actual_input_length, actual_output_length, wdf_request_ref_acquired,
                   caller_answer, reject, ref_count, cancelable, mark_calls, cancel_vars,
                   handler_vars, callback_vars>>

(***************************************************************************)
(* _ebpf_driver_io_device_control_complete, lines 352-361, called by a     *)
(* handler that returned pending, on any thread and possibly before the    *)
(* dispatcher has seen the handler return.                                 *)
(***************************************************************************)
\* The results a pending handler may complete with: cancelled only once it was told.
HandlerCompletions(i) ==
    CompletionResults \cup (IF cancel_hints[i] > 0 THEN {"EBPF_CANCELED"} ELSE {})

\* A completion callback that completes without WdfRequestUnmarkCancelable.
CompleteWithoutUnmark(i) ==
    /\ handler_state[i] = "pending"
    /\ cb_pc[i] = "idle"
    /\ \E result \in HandlerCompletions(i), length \in {0, handler_output_length[i]} :
         /\ cb_result' = [cb_result EXCEPT ![i] = result]
         /\ cb_length' = [cb_length EXCEPT ![i] = length]
    /\ handler_state' = [handler_state EXCEPT ![i] = "completed"]
    /\ cb_pc' = [cb_pc EXCEPT ![i] = "complete"]
    /\ UNCHANGED <<delivered, req, dispatcher_vars, request_vars, cancel_vars,
                   handler_calls, handler_result, handler_input_length,
                   handler_output_length, cancel_hints>>

\* Line 357: WdfRequestUnmarkCancelable(request), its status ignored.
CompleteUnmark(i) ==
    /\ handler_state[i] = "pending"
    /\ cb_pc[i] = "idle"
    /\ \E result \in HandlerCompletions(i), length \in {0, handler_output_length[i]} :
         /\ cb_result' = [cb_result EXCEPT ![i] = result]
         /\ cb_length' = [cb_length EXCEPT ![i] = length]
    /\ handler_state' = [handler_state EXCEPT ![i] = "completed"]
    /\ cancelable' = [cancelable EXCEPT ![i] = FALSE]
    /\ cb_pc' = [cb_pc EXCEPT ![i] = "complete"]
    /\ UNCHANGED <<delivered, req, dispatcher_vars, ref_count, mark_calls, completions,
                   completed_status, completed_information, completed_by, cancel_vars,
                   handler_calls, handler_result, handler_input_length,
                   handler_output_length, cancel_hints>>

\* A completion callback that answers a cancelled command with STATUS_CANCELLED
\* and no reply, whatever the handler's result.
CompleteRequestCancelled(i) ==
    /\ cb_pc[i] = "complete"
    /\ completions' = [completions EXCEPT ![i] = completions[i] + 1]
    /\ completed_status' = [completed_status EXCEPT ![i] = IF irp_cancel[i] THEN "STATUS_CANCELLED" ELSE ebpf_result_to_ntstatus(cb_result[i])]
    /\ completed_information' = [completed_information EXCEPT ![i] = IF irp_cancel[i] THEN 0 ELSE cb_length[i]]
    /\ completed_by' = [completed_by EXCEPT ![i] = "callback"]
    /\ cb_pc' = [cb_pc EXCEPT ![i] = "dereference"]
    /\ UNCHANGED <<delivered, req, dispatcher_vars, ref_count, cancelable, mark_calls,
                   cancel_vars, handler_vars, cb_result, cb_length>>

\* Line 359: WdfRequestCompleteWithInformation(request, ntstatus(result), output_buffer_length).
CompleteRequest(i) ==
    /\ cb_pc[i] = "complete"
    /\ completions' = [completions EXCEPT ![i] = completions[i] + 1]
    /\ completed_status' = [completed_status EXCEPT ![i] = ebpf_result_to_ntstatus(cb_result[i])]
    /\ completed_information' = [completed_information EXCEPT ![i] = cb_length[i]]
    /\ completed_by' = [completed_by EXCEPT ![i] = "callback"]
    /\ cb_pc' = [cb_pc EXCEPT ![i] = "dereference"]
    /\ UNCHANGED <<delivered, req, dispatcher_vars, ref_count, cancelable, mark_calls,
                   cancel_vars, handler_vars, cb_result, cb_length>>

\* Line 360: WdfObjectDereference(request).
CompleteDereference(i) ==
    /\ cb_pc[i] = "dereference"
    /\ ref_count' = [ref_count EXCEPT ![i] = ref_count[i] - 1]
    /\ cb_pc' = [cb_pc EXCEPT ![i] = "done"]
    /\ UNCHANGED <<delivered, req, dispatcher_vars, cancelable, mark_calls, completions,
                   completed_status, completed_information, completed_by, cancel_vars,
                   handler_vars, cb_result, cb_length>>

(***************************************************************************)
(* Cancellation.  The caller cancels the I/O at any time after it issued   *)
(* it; the framework calls the registered cancel callback once, and only   *)
(* for a request that is marked cancelable at that moment.                 *)
(***************************************************************************)
CancelIo(i) ==
    /\ pc[i] # "none"
    /\ ~irp_cancel[i]
    /\ irp_cancel' = [irp_cancel EXCEPT ![i] = TRUE]
    /\ cancel_at' = [cancel_at EXCEPT ![i] = IF completions[i] > 0 THEN "completed" ELSE "uncompleted"]
    /\ IF cancelable[i]
       THEN /\ cancelable' = [cancelable EXCEPT ![i] = FALSE]
            /\ cancel_pc' = [cancel_pc EXCEPT ![i] = "callback"]
       ELSE UNCHANGED <<cancelable, cancel_pc>>
    /\ UNCHANGED <<delivered, req, dispatcher_vars, ref_count, mark_calls, completions,
                   completed_status, completed_information, completed_by, handler_vars,
                   callback_vars>>

\* A cancel callback that completes the request itself with STATUS_CANCELLED.
CancelCallbackCompletes(i) ==
    /\ cancel_pc[i] = "callback"
    /\ cancel_hints' = [cancel_hints EXCEPT ![i] = ebpf_core_cancel_protocol_handler(i, cancel_hints[i])]
    /\ cancel_pc' = [cancel_pc EXCEPT ![i] = "done"]
    /\ completions' = [completions EXCEPT ![i] = completions[i] + 1]
    /\ completed_status' = [completed_status EXCEPT ![i] = "STATUS_CANCELLED"]
    /\ completed_information' = [completed_information EXCEPT ![i] = 0]
    /\ completed_by' = [completed_by EXCEPT ![i] = "cancel"]
    /\ UNCHANGED <<delivered, req, dispatcher_vars, ref_count, cancelable, mark_calls,
                   irp_cancel, cancel_at, handler_calls, handler_result,
                   handler_input_length, handler_output_length, handler_state,
                   callback_vars>>

\* _ebpf_driver_io_device_control_cancel, lines 363-368: the hint and nothing else.
CancelCallback(i) ==
    /\ cancel_pc[i] = "callback"
    /\ cancel_hints' = [cancel_hints EXCEPT ![i] = ebpf_core_cancel_protocol_handler(i, cancel_hints[i])]
    /\ cancel_pc' = [cancel_pc EXCEPT ![i] = "done"]
    /\ UNCHANGED <<delivered, req, dispatcher_vars, request_vars, irp_cancel, cancel_at,
                   handler_calls, handler_result, handler_input_length, handler_output_length,
                   handler_state, callback_vars>>

\* The thread that dispatches request i.
DispatcherNext(i) ==
    /\ UNCHANGED <<filter_vars, driver_vars>>
    /\ \/ Validate(i)
       \/ MarkCancelable(i)
       \/ InvokeHandler(i)
       \/ DonePending(i)
       \/ DoneUnmark(i)
       \/ DoneDereference(i)
       \/ DoneComplete(i)

\* The thread on which the handler of request i calls the completion callback.
CompletionNext(i) ==
    /\ UNCHANGED <<filter_vars, driver_vars>>
    /\ \/ CompleteUnmark(i)
       \/ CompleteRequest(i)
       \/ CompleteDereference(i)

\* The caller's cancel of request i and the framework's call of the cancel callback.
CancelNext(i) ==
    /\ UNCHANGED <<filter_vars, driver_vars>>
    /\ \/ CancelIo(i)
       \/ CancelCallback(i)

Next ==
    \/ \E r \in Requests : Deliver(r) /\ UNCHANGED <<filter_vars, driver_vars>>
    \/ \E i \in RequestNumbers : DispatcherNext(i)
    \/ \E i \in RequestNumbers : CompletionNext(i)
    \/ \E i \in RequestNumbers : CancelNext(i)

Spec == Init /\ [][Next]_all_vars

\* A step of the dispatching thread or of the completion callback of some request.
Progress == \E i \in RequestNumbers : DispatcherNext(i) \/ CompletionNext(i)

\* The threads are scheduled: while a dispatching thread is in the dispatcher or
\* a handler that returned pending owes its call of the completion callback, one
\* of them takes its next step.  Nobody has to cancel.
FairSpec == Spec /\ WF_all_vars(Progress)


(***************************************************************************)
(* The reference macros of net_ebpf_ext.h.  The count is read and written  *)
(* by InterlockedIncrement / InterlockedDecrement, so one use of a macro   *)
(* is one step; only the thread whose decrement returns zero goes on to    *)
(* leave the provider's rundown and clean the context up.                  *)
(***************************************************************************)
\* A reference macro that counts every reference twice.
ReferenceTwice(count) == count + 2

\* REFERENCE_FILTER_CONTEXT, lines 184-187.
REFERENCE_FILTER_CONTEXT(count) == count + 1

\* A release macro that never cleans up.
DereferenceNeverCleansUp(count) ==
    [reference_count |-> count - 1, clean_up |-> FALSE]

\* A release macro that cleans up while one reference is still held.
DereferenceCleansUpEarly(count) ==
    [reference_count |-> count - 1, clean_up |-> count - 1 <= 1]

\* DEREFERENCE_FILTER_CONTEXT, lines 189-196: the new count, and whether this
\* decrement is the one that cleans up.
DEREFERENCE_FILTER_CONTEXT(count) ==
    [reference_count |-> count - 1, clean_up |-> count - 1 = 0]

\* The steps of a thread that releases one reference of the filter context.
Dereference ==
    LET released == DEREFERENCE_FILTER_CONTEXT(reference_count)
    IN  /\ reference_count' = released.reference_count
        /\ finalize_pc' = IF released.clean_up THEN "leave_rundown" ELSE finalize_pc

\* The variables of the rules and of the operations on them.
rule_vars == <<filter_ids, wfp_vars, add, delete_pc, add_calls>>
\* The variables of the context's last moments.
final_vars == <<filter_context, free_count, filter_cleanup_list>>

(***************************************************************************)
(* The cleanup lists of net_ebpf_extension_wfp_cleanup_state_t (lines      *)
(* 147-158), both under the state's lock.  The flag and the event are the  *)
(* filter list's (lines 156-157): signal_empty_filter_list asks for the    *)
(* event, and the event says that no WFP filter is left that requires a    *)
(* deletion callback.  The provider list has no part in either.            *)
(***************************************************************************)
CleanupListsEmpty == filter_cleanup_list = {} /\ provider_context_cleanup_list = {}

\* A removal that looks at the provider list instead of the filter list.
SignalIfProvidersEmpty(filters, providers) ==
    IF signal_empty_filter_list /\ providers = {}
    THEN /\ wfp_filter_cleanup_event' = TRUE
         /\ signal_count' = signal_count + 1
    ELSE UNCHANGED signal_vars

\* A removal that signals the event whenever it was asked for.
SignalOnEveryRemoval(filters, providers) ==
    IF signal_empty_filter_list
    THEN /\ wfp_filter_cleanup_event' = TRUE
         /\ signal_count' = signal_count + 1
    ELSE UNCHANGED signal_vars

\* The end of a removal, with the lists as the removal leaves them: the event
\* is signaled when it was asked for and no filter context is left listed.
SignalIfEmpty(filters, providers) ==
    IF signal_empty_filter_list /\ filters = {}
    THEN /\ wfp_filter_cleanup_event' = TRUE
         /\ signal_count' = signal_count + 1
    ELSE UNCHANGED signal_vars

\* Declared at lines 416-422.
net_ebpf_ext_add_filter_context_to_cleanup_list(item) ==
    filter_cleanup_list' = filter_cleanup_list \cup {item}

\* Declared at lines 424-430, and called for every context that is cleaned up
\* (line 169), listed or not.  The removal that empties the list fires the
\* signal; a call for a context that is not listed removes nothing.
net_ebpf_ext_remove_filter_context_from_cleanup_list(item) ==
    IF item \in filter_cleanup_list
    THEN /\ filter_cleanup_list' = filter_cleanup_list \ {item}
         /\ SignalIfEmpty(filter_cleanup_list \ {item}, provider_context_cleanup_list)
    ELSE UNCHANGED <<filter_cleanup_list, signal_vars>>

\* A clean-up that goes on without leaving the provider's rundown.
LeaveRundownSkipped ==
    /\ finalize_pc = "leave_rundown"
    /\ finalize_pc' = "cleanup_list"
    /\ UNCHANGED <<final_vars, reference_count, client_vars, provider_vars, rule_vars,
                   context_deleting, call, snapshot, signal_vars>>

\* Line 191: the thread that brought the count to zero leaves the provider's
\* rundown first.
LeaveRundown ==
    /\ finalize_pc = "leave_rundown"
    /\ rundown_count' = rundown_count - 1
    /\ provider_reference' = FALSE
    /\ leave_count' = leave_count + 1
    /\ finalize_pc' = "cleanup_list"
    /\ UNCHANGED <<final_vars, reference_count, client_vars, rundown_state, rule_vars,
                   context_deleting, call, snapshot, signal_vars>>

\* A clean-up that returns the context to the pool before it takes it off the
\* cleanup list.
RemoveFromCleanupListAfterFree ==
    /\ finalize_pc = "cleanup_list"
    /\ filter_context' = "freed"
    /\ free_count' = free_count + 1
    /\ net_ebpf_ext_remove_filter_context_from_cleanup_list(FilterContext)
    /\ finalize_pc' = "free"
    /\ UNCHANGED <<reference_count, client_vars, provider_vars, rule_vars,
                   context_deleting, call, snapshot>>

\* CLEAN_UP_FILTER_CONTEXT, line 170: the context leaves the filter cleanup list.
RemoveFromCleanupList ==
    /\ finalize_pc = "cleanup_list"
    /\ net_ebpf_ext_remove_filter_context_from_cleanup_list(FilterContext)
    /\ finalize_pc' = "free"
    /\ UNCHANGED <<filter_context, free_count, reference_count, client_vars, provider_vars,
                   rule_vars, context_deleting, call, snapshot>>

\* CLEAN_UP_FILTER_CONTEXT, lines 171-181: filter_ids, client_contexts and the
\* context itself go back to the pool.
FreeFilterContext ==
    /\ finalize_pc = "free"
    /\ filter_context' = "freed"
    /\ free_count' = free_count + 1
    /\ finalize_pc' = "done"
    /\ UNCHANGED <<filter_cleanup_list, reference_count, client_vars, provider_vars,
                   rule_vars, context_deleting, call, snapshot, signal_vars>>

(***************************************************************************)
(* create: net_ebpf_extension_wfp_filter_context_create (declared at lines *)
(* 199-215).  The allocation may fail; a context that is created holds one *)
(* reference of its own and one rundown reference on its provider.         *)
(***************************************************************************)
net_ebpf_extension_wfp_filter_context_create(max_clients) ==
    /\ filter_context = "NULL"
    /\ rundown_state = "active"
    /\ \/ /\ call' = [op |-> "create", client |-> NULL, result |-> "EBPF_NO_MEMORY"]
          /\ UNCHANGED <<filter_context, reference_count, client_vars, provider_reference,
                         rundown_count>>
       \/ /\ filter_context' = "allocated"
          /\ reference_count' = 1
          /\ client_context_count_max' = max_clients
          /\ client_contexts' = [slot \in 1 .. max_clients |-> NULL]
          /\ client_context_count' = 0
          /\ provider_reference' = TRUE
          /\ rundown_count' = rundown_count + 1
          /\ call' = [op |-> "create", client |-> NULL, result |-> "EBPF_SUCCESS"]
    /\ UNCHANGED <<free_count, filter_cleanup_list, rundown_state, leave_count, rule_vars,
                   context_deleting, finalize_pc, snapshot>>

(***************************************************************************)
(* attach and detach: net_ebpf_ext_add_client_context (lines 394-406) and  *)
(* net_ebpf_ext_remove_client_context (lines 383-392), each under the      *)
(* context's lock.                                                         *)
(***************************************************************************)
AttachedClients == {client_contexts[slot] : slot \in DOMAIN client_contexts} \ {NULL}
FreeSlots == {slot \in DOMAIN client_contexts : client_contexts[slot] = NULL}
FirstFreeSlot == CHOOSE slot \in FreeSlots : \A other \in FreeSlots : slot <= other
SlotOf(client) == CHOOSE slot \in DOMAIN client_contexts : client_contexts[slot] = client

\* An attach that never finds the array full.
ClientArrayFullNever(count, max) == FALSE

\* No more client contexts can be added.
ClientArrayFull(count, max) == count >= max

net_ebpf_ext_add_client_context(client) ==
    /\ filter_context = "allocated"
    /\ ~context_deleting
    /\ client \notin AttachedClients
    /\ IF ClientArrayFull(client_context_count, client_context_count_max)
       THEN /\ call' = [op |-> "attach", client |-> client, result |-> "EBPF_NO_MEMORY"]
            /\ snapshot' = NoSnapshot
            /\ UNCHANGED <<client_contexts, client_context_count, reference_count>>
       ELSE /\ client_contexts' = IF FreeSlots = {} THEN client_contexts
                                  ELSE [client_contexts EXCEPT ![FirstFreeSlot] = client]
            /\ client_context_count' = client_context_count + 1
            /\ reference_count' = REFERENCE_FILTER_CONTEXT(reference_count)
            /\ call' = [op |-> "attach", client |-> client, result |-> "EBPF_SUCCESS"]
            /\ snapshot' = [client |-> client, count |-> client_context_count,
                            contexts |-> client_contexts, closed |-> FALSE]
    /\ UNCHANGED <<final_vars, client_context_count_max, provider_vars, rule_vars,
                   context_deleting, finalize_pc>>

\* A detach that releases a reference whether it found the client or not.
RemoveClientAlwaysReleases(client) ==
    /\ filter_context = "allocated"
    /\ IF client \in AttachedClients
       THEN /\ client_contexts' = [client_contexts EXCEPT ![SlotOf(client)] = NULL]
            /\ client_context_count' = client_context_count - 1
            /\ call' = [op |-> "detach", client |-> client, result |-> "removed"]
       ELSE /\ call' = [op |-> "detach", client |-> client, result |-> "absent"]
            /\ UNCHANGED <<client_contexts, client_context_count>>
    /\ Dereference
    /\ snapshot' = NoSnapshot
    /\ UNCHANGED <<final_vars, client_context_count_max, provider_vars, rule_vars,
                   context_deleting>>

\* A detach that finds the client and leaves its slot as it was.
RemoveClientKeepsSlot(client) ==
    /\ filter_context = "allocated"
    /\ IF client \in AttachedClients
       THEN /\ client_context_count' = client_context_count - 1
            /\ Dereference
            /\ call' = [op |-> "detach", client |-> client, result |-> "removed"]
            /\ snapshot' = IF /\ call = [op |-> "attach", client |-> client,
                                         result |-> "EBPF_SUCCESS"]
                              /\ snapshot.client = client
                           THEN [snapshot EXCEPT !.closed = TRUE]
                           ELSE NoSnapshot
            /\ UNCHANGED client_contexts
       ELSE /\ call' = [op |-> "detach", client |-> client, result |-> "absent"]
            /\ snapshot' = NoSnapshot
            /\ UNCHANGED <<client_contexts, client_context_count, reference_count,
                           finalize_pc>>
    /\ UNCHANGED <<final_vars, client_context_count_max, provider_vars, rule_vars,
                   context_deleting>>

net_ebpf_ext_remove_client_context(client) ==
    /\ filter_context = "allocated"
    /\ IF client \in AttachedClients
       THEN /\ client_contexts' = [client_contexts EXCEPT ![SlotOf(client)] = NULL]
            /\ client_context_count' = client_context_count - 1
            /\ Dereference
            /\ call' = [op |-> "detach", client |-> client, result |-> "removed"]
            /\ snapshot' = IF /\ call = [op |-> "attach", client |-> client,
                                         result |-> "EBPF_SUCCESS"]
                              /\ snapshot.client = client
                           THEN [snapshot EXCEPT !.closed = TRUE]
                           ELSE NoSnapshot
       ELSE /\ call' = [op |-> "detach", client |-> client, result |-> "absent"]
            /\ snapshot' = NoSnapshot
            /\ UNCHANGED <<client_contexts, client_context_count, reference_count,
                           finalize_pc>>
    /\ UNCHANGED <<final_vars, client_context_count_max, provider_vars, rule_vars,
                   context_deleting>>

(***************************************************************************)
(* add_rules: net_ebpf_extension_add_wfp_filters (declared at lines        *)
(* 275-297).  The filters are added to the filtering platform one by one,  *)
(* each holding a reference of the context; the records reach              *)
(* filter_context->filter_ids only when every filter was added, and a      *)
(* failure takes back the filters added before it.                         *)
(***************************************************************************)
\* The id the platform gives the index-th filter of the call-th add.
FilterId(call_number, index) == (call_number - 1) * MaxRules + index

FilterRecord(id) ==
    [id |-> id, state |-> NET_EBPF_EXT_WFP_FILTER_ADDED, error_code |-> "STATUS_SUCCESS"]

RecordIds(records) == {records[index].id : index \in DOMAIN records}

RECURSIVE DereferenceTimes(_, _)
\* DEREFERENCE_FILTER_CONTEXT applied times in a row.
DereferenceTimes(count, times) ==
    IF times = 0
    THEN [reference_count |-> count, clean_up |-> FALSE]
    ELSE LET first == DEREFERENCE_FILTER_CONTEXT(count)
             rest == DereferenceTimes(first.reference_count, times - 1)
         IN  [reference_count |-> rest.reference_count,
              clean_up |-> first.clean_up \/ rest.clean_up]

AddFiltersBegin(filter_count, fail_at) ==
    /\ filter_context = "allocated"
    /\ ~context_deleting
    /\ add.pc = "idle"
    /\ filter_ids = <<>>
    /\ add_calls < MaxAddCalls
    /\ add' = [pc |-> "adding", count |-> filter_count, fail_at |-> fail_at,
               local_filter_ids |-> <<>>]
    /\ add_calls' = add_calls + 1
    /\ UNCHANGED <<final_vars, reference_count, client_vars, provider_vars, filter_ids,
                   wfp_vars, delete_pc, context_deleting, finalize_pc, call, snapshot>>

\* One filter of the call: the platform adds it, or refuses it.
AddFilter ==
    /\ add.pc = "adding"
    /\ Len(add.local_filter_ids) < add.count
    /\ LET index == Len(add.local_filter_ids) + 1
           id == FilterId(add_calls, index)
       IN  IF index = add.fail_at
           THEN /\ add' = [add EXCEPT !.pc = "abort"]
                /\ UNCHANGED <<reference_count, wfp_filters>>
           ELSE /\ reference_count' = REFERENCE_FILTER_CONTEXT(reference_count)
                /\ wfp_filters' = wfp_filters \cup {id}
                /\ add' = [add EXCEPT !.local_filter_ids = Append(@, FilterRecord(id))]
    /\ UNCHANGED <<final_vars, client_vars, provider_vars, filter_ids, wfp_deleting,
                   delete_requests, delete_pc, add_calls, context_deleting, finalize_pc,
                   call, snapshot>>

\* Every filter was added: the records become the context's.
AddFiltersCommit ==
    /\ add.pc = "adding"
    /\ Len(add.local_filter_ids) = add.count
    /\ filter_ids' = add.local_filter_ids
    /\ add' = NoAdd
    /\ call' = [op |-> "add_rules", client |-> NULL, result |-> "EBPF_SUCCESS"]
    /\ UNCHANGED <<final_vars, reference_count, client_vars, provider_vars, wfp_vars,
                   delete_pc, add_calls, context_deleting, finalize_pc, snapshot>>

\* A failed add that returns its error and leaves behind the filters it added.
AddFiltersAbortKeepsFilters ==
    /\ add.pc = "abort"
    /\ add' = [add EXCEPT !.pc = "idle", !.local_filter_ids = <<>>]
    /\ call' = [op |-> "add_rules", client |-> NULL, result |-> "EBPF_INVALID_ARGUMENT"]
    /\ UNCHANGED <<final_vars, reference_count, client_vars, provider_vars, filter_ids,
                   wfp_vars, delete_pc, add_calls, context_deleting, finalize_pc, snapshot>>

\* A filter was refused: the filters added before it leave the platform and
\* give their references back, and the caller gets the error.
AddFiltersAbort ==
    /\ add.pc = "abort"
    /\ LET released == DereferenceTimes(reference_count, Len(add.local_filter_ids))
       IN  /\ reference_count' = released.reference_count
           /\ finalize_pc' = IF released.clean_up THEN "leave_rundown" ELSE finalize_pc
    /\ wfp_filters' = wfp_filters \ RecordIds(add.local_filter_ids)
    /\ add' = [add EXCEPT !.pc = "idle", !.local_filter_ids = <<>>]
    /\ call' = [op |-> "add_rules", client |-> NULL, result |-> "EBPF_INVALID_ARGUMENT"]
    /\ UNCHANGED <<final_vars, client_vars, provider_vars, filter_ids, wfp_deleting,
                   delete_requests, delete_pc, add_calls, context_deleting, snapshot>>

(***************************************************************************)
(* begin_delete: net_ebpf_extension_wfp_filter_context_cleanup (declared   *)
(* at lines 217-225): the context is marked deleting and put on the filter *)
(* cleanup list, the deletion of every filter is asked of the platform     *)
(* (net_ebpf_extension_delete_wfp_filters, lines 299-310), and the         *)
(* context's own reference is released.                                    *)
(***************************************************************************)
BeginDelete ==
    /\ filter_context = "allocated"
    /\ ~context_deleting
    /\ add.pc = "idle"
    /\ context_deleting' = TRUE
    /\ net_ebpf_ext_add_filter_context_to_cleanup_list(FilterContext)
    /\ delete_pc' = [pc |-> "delete_filters", index |-> 1]
    /\ call' = [op |-> "begin_delete", client |-> NULL, result |-> "none"]
    /\ UNCHANGED <<filter_context, free_count, reference_count, client_vars, provider_vars,
                   filter_ids, wfp_vars, add, add_calls, finalize_pc, snapshot>>

Requested(id) == IF id \in DOMAIN delete_requests THEN delete_requests[id] ELSE 0
CountRequest(id) ==
    [other \in DOMAIN delete_requests \cup {id} |->
        IF other = id THEN Requested(id) + 1 ELSE delete_requests[other]]

\* A failed deletion that keeps the filter's reference of the context.
DeleteFailedKeepsReference(index, error) ==
    /\ filter_ids' = [filter_ids EXCEPT
                        ![index].state = NET_EBPF_EXT_WFP_FILTER_DELETE_FAILED,
                        ![index].error_code = error]
    /\ UNCHANGED <<reference_count, finalize_pc>>

\* The platform refuses the deletion: the record keeps the error, and the
\* filter no longer holds the context.
DeleteFailed(index, error) ==
    /\ filter_ids' = [filter_ids EXCEPT
                        ![index].state = NET_EBPF_EXT_WFP_FILTER_DELETE_FAILED,
                        ![index].error_code = error]
    /\ Dereference

\* One filter of net_ebpf_extension_delete_wfp_filters' loop.
DeleteFilter ==
    /\ delete_pc.pc = "delete_filters"
    /\ delete_pc.index <= Len(filter_ids)
    /\ LET index == delete_pc.index
           id == filter_ids[index].id
       IN  /\ delete_requests' = CountRequest(id)
           /\ \/ /\ filter_ids' = [filter_ids EXCEPT
                                     ![index].state = NET_EBPF_EXT_WFP_FILTER_DELETING]
                 /\ wfp_deleting' = wfp_deleting \cup {id}
                 /\ UNCHANGED <<reference_count, finalize_pc>>
              \/ /\ \E error \in DeleteErrors : DeleteFailed(index, error)
                 /\ UNCHANGED wfp_deleting
    /\ delete_pc' = [delete_pc EXCEPT !.index = @ + 1]
    /\ UNCHANGED <<final_vars, client_vars, provider_vars, wfp_filters, add, add_calls,
                   context_deleting, call, snapshot>>

\* The end of net_ebpf_extension_wfp_filter_context_cleanup: the reference the
\* context was created with.
DeleteRelease ==
    /\ delete_pc.pc = "delete_filters"
    /\ delete_pc.index > Len(filter_ids)
    /\ Dereference
    /\ delete_pc' = [pc |-> "done", index |-> 0]
    /\ UNCHANGED <<final_vars, client_vars, provider_vars, filter_ids, wfp_vars, add,
                   add_calls, context_deleting, call, snapshot>>

(***************************************************************************)
(* The rule-deletion callback: net_ebpf_ext_filter_change_notify (declared *)
(* at lines 379-381), called by the platform once for a filter whose       *)
(* deletion it accepted, in any order.                                     *)
(***************************************************************************)
IndexOf(id) == CHOOSE index \in DOMAIN filter_ids : filter_ids[index].id = id

net_ebpf_ext_filter_change_notify(id) ==
    /\ id \in wfp_deleting
    /\ filter_ids' = [filter_ids EXCEPT ![IndexOf(id)].state = NET_EBPF_EXT_WFP_FILTER_DELETED]
    /\ wfp_filters' = wfp_filters \ {id}
    /\ wfp_deleting' = wfp_deleting \ {id}
    /\ Dereference
    /\ UNCHANGED <<final_vars, client_vars, provider_vars, delete_requests, add, delete_pc,
                   add_calls, context_deleting, call, snapshot>>

\* Clients attach in the order of their ids: the next one to attach is the
\* first of them that is not attached.
IsNextClient(client, clients) ==
    /\ client \notin AttachedClients
    /\ \A other \in clients \ AttachedClients : client <= other

(***************************************************************************)
(* The provider is unregistered: it waits for its rundown references to be *)
(* released, and no context is created against it any more.                *)
(***************************************************************************)
ProviderRundownBegin ==
    /\ rundown_state = "active"
    /\ rundown_state' = "waiting"
    /\ UNCHANGED <<final_vars, reference_count, client_vars, provider_reference,
                   rundown_count, leave_count, rule_vars, context_deleting, finalize_pc,
                   call, snapshot>>

ProviderRundownComplete ==
    /\ rundown_state = "waiting"
    /\ rundown_count = 0
    /\ rundown_state' = "completed"
    /\ UNCHANGED <<final_vars, reference_count, client_vars, provider_reference,
                   rundown_count, leave_count, rule_vars, context_deleting, finalize_pc,
                   call, snapshot>>

\* The thread that cleans the context up.
FinalizeNext ==
    /\ UNCHANGED <<vars, driver_vars, detach_calls, drain_vars>>
    /\ \/ LeaveRundown
       \/ RemoveFromCleanupList
       \/ FreeFilterContext

\* The thread that deletes the context.
DeleteNext ==
    /\ UNCHANGED <<vars, driver_vars, detach_calls, drain_vars, signal_vars>>
    /\ \/ DeleteFilter
       \/ DeleteRelease

\* The platform's notifications.
NotifyNext ==
    /\ UNCHANGED <<vars, driver_vars, detach_calls, drain_vars, signal_vars>>
    /\ \E id \in wfp_deleting : net_ebpf_ext_filter_change_notify(id)

\* The life of one filter context with its rules.
FilterNext ==
    \/ /\ UNCHANGED <<vars, driver_vars, detach_calls, drain_vars, signal_vars>>
       /\ \/ \E max_clients \in Capacities :
                net_ebpf_extension_wfp_filter_context_create(max_clients)
          \/ \E client \in LifecycleClients :
                /\ IsNextClient(client, LifecycleClients)
                /\ net_ebpf_ext_add_client_context(client)
          \/ \E client \in LifecycleClients : net_ebpf_ext_remove_client_context(client)
          \/ \E filter_count \in 1 .. MaxRules : \E fail_at \in 0 .. filter_count :
                AddFiltersBegin(filter_count, fail_at)
          \/ AddFilter
          \/ AddFiltersCommit
          \/ AddFiltersAbort
          \/ BeginDelete
          \/ ProviderRundownBegin
          \/ ProviderRundownComplete
    \/ DeleteNext
    \/ NotifyNext
    \/ FinalizeNext

FilterSpec == Init /\ [][FilterNext]_all_vars

\* The deleting thread runs on, the platform notifies every deletion it
\* accepted, and the thread that cleans up runs to its end.
FilterFairSpec ==
    FilterSpec /\ WF_all_vars(DeleteNext) /\ WF_all_vars(NotifyNext) /\ WF_all_vars(FinalizeNext)

(***************************************************************************)
(* The client array on its own: the clients attach, up to one more than   *)
(* the capacity, and any of them detaches.                                 *)
(***************************************************************************)

ClientNext ==
    \/ /\ UNCHANGED <<vars, driver_vars, detach_calls, drain_vars, signal_vars>>
       /\ \/ \E max_clients \in Capacities :
                net_ebpf_extension_wfp_filter_context_create(max_clients)
          \/ \E client \in Clients :
                IsNextClient(client, Clients) /\ net_ebpf_ext_add_client_context(client)
    \/ /\ UNCHANGED <<vars, driver_vars, drain_vars, signal_vars>>
       /\ detach_calls < MaxDetachCalls
       /\ detach_calls' = detach_calls + 1
       /\ \E client \in Clients : net_ebpf_ext_remove_client_context(client)

ClientSpec == Init /\ [][ClientNext]_all_vars


(***************************************************************************)
(* The cleanup coordinator on its own: filter contexts and provider        *)
(* contexts are put on their cleanup lists, filter contexts are removed    *)
(* from theirs (the header declares no removal of a provider context), and *)
(* the unload path waits for the cleanup (drain): it asks for the event,   *)
(* blocks while a filter context is listed, and returns when the event is  *)
(* signaled or when its timeout expires.  By the time the wait starts      *)
(* nothing new is attached, so nothing is added to the lists after it.     *)
(***************************************************************************)
\* The filter contexts and the provider contexts that are cleaned up.
MaxCleanupItems == 3
CleanupItems == 1 .. MaxCleanupItems

\* The variables of the filter context that the lists do not look at.
context_vars == <<filter_context, reference_count, client_vars, provider_vars, filter_ids,
                  context_deleting, wfp_vars, add, delete_pc, finalize_pc, free_count,
                  call, snapshot, add_calls, detach_calls>>

RegisterFilter(item) ==
    /\ ~signal_empty_filter_list
    /\ item \notin filter_cleanup_list
    /\ net_ebpf_ext_add_filter_context_to_cleanup_list(item)
    /\ UNCHANGED <<drain_vars, signal_vars>>

\* The removal of a context, whether it is on the list or not.
UnregisterFilter(item) ==
    /\ net_ebpf_ext_remove_filter_context_from_cleanup_list(item)
    /\ UNCHANGED drain_vars

\* net_ebpf_ext_add_provider_context_to_cleanup_list, declared at lines 408-414.
RegisterProvider(item) ==
    /\ ~signal_empty_filter_list
    /\ item \notin provider_context_cleanup_list
    /\ provider_context_cleanup_list' = provider_context_cleanup_list \cup {item}
    /\ UNCHANGED <<filter_cleanup_list, signal_empty_filter_list, drain_pc, drain_result,
                   signal_vars>>

\* What drain finds listed as it asks for the event.
Listed == [pending |-> Cardinality(filter_cleanup_list)
                         + Cardinality(provider_context_cleanup_list),
           filters |-> Cardinality(filter_cleanup_list)]

\* A drain that asks for the event and waits for it without a look at the lists.
DrainArmAlwaysWaits ==
    /\ drain_pc.pc = "idle"
    /\ signal_empty_filter_list' = TRUE
    /\ drain_pc' = [pc |-> "waiting", pending |-> Listed.pending, filters |-> Listed.filters]
    /\ UNCHANGED <<filter_cleanup_list, provider_context_cleanup_list, drain_result,
                   signal_vars>>

\* drain asks for the event under the lock, and waits only if a filter context
\* is listed: no removal would signal the event otherwise.
DrainArm ==
    /\ drain_pc.pc = "idle"
    /\ signal_empty_filter_list' = TRUE
    /\ IF filter_cleanup_list = {}
       THEN /\ drain_pc' = [pc |-> "done", pending |-> Listed.pending,
                            filters |-> Listed.filters]
            /\ drain_result' = "Drained"
       ELSE /\ drain_pc' = [pc |-> "waiting", pending |-> Listed.pending,
                            filters |-> Listed.filters]
            /\ UNCHANGED drain_result
    /\ UNCHANGED <<filter_cleanup_list, provider_context_cleanup_list, signal_vars>>

\* The wait is satisfied by the event.
DrainWake ==
    /\ drain_pc.pc = "waiting"
    /\ wfp_filter_cleanup_event
    /\ drain_pc' = [drain_pc EXCEPT !.pc = "done"]
    /\ drain_result' = "Drained"
    /\ UNCHANGED <<filter_cleanup_list, provider_context_cleanup_list,
                   signal_empty_filter_list, signal_vars>>

\* The timeout expires with the event not signaled.
DrainTimeout ==
    /\ drain_pc.pc = "waiting"
    /\ ~wfp_filter_cleanup_event
    /\ drain_pc' = [drain_pc EXCEPT !.pc = "done"]
    /\ drain_result' = "TimedOut"
    /\ UNCHANGED <<filter_cleanup_list, provider_context_cleanup_list,
                   signal_empty_filter_list, signal_vars>>

CleanupNext ==
    /\ UNCHANGED <<vars, driver_vars, context_vars>>
    /\ \/ \E item \in CleanupItems : RegisterFilter(item)
       \/ \E item \in CleanupItems : UnregisterFilter(item)
       \/ \E item \in CleanupItems : RegisterProvider(item)
       \/ DrainArm
       \/ DrainWake
       \/ DrainTimeout

CleanupSpec == Init /\ [][CleanupNext]_all_vars


(***************************************************************************)
(* _ebpf_driver_initialize_objects, lines 291-343: the steps in the order  *)
(* of the source, each of which may fail and take the Exit: path, but the  *)
(* last, WdfControlFinishInitializing, after which the device is open for  *)
(* create requests.                                                        *)
(***************************************************************************)
\* An initialization that finishes the device before it builds the descriptor.
InitializationFinishesFirst ==
    <<"driver_create", "initialize_device", "queue_create", "core_initiate",
      "finish_initializing", "build_descriptor">>

InitializationSteps ==
    <<"driver_create", "initialize_device", "queue_create", "core_initiate",
      "build_descriptor", "finish_initializing">>

StepIndex(step) == CHOOSE index \in DOMAIN InitializationSteps : InitializationSteps[index] = step
AfterStep(step) ==
    IF StepIndex(step) = Len(InitializationSteps)
    THEN "running"
    ELSE InitializationSteps[StepIndex(step) + 1]

\* WdfDriverCreate, _ebpf_driver_initialize_device, WdfIoQueueCreate (lines
\* 291-311): success, or goto Exit.
InitializeStep ==
    /\ driver_pc \in {"driver_create", "initialize_device", "queue_create"}
    /\ \/ driver_pc' = AfterStep(driver_pc)
       \/ driver_pc' = "failed"
    /\ UNCHANGED <<ebpf_execution_context_privileged_security_descriptor, accepting,
                   _ebpf_driver_unloading_flag, core_initialized, build_count, file,
                   privilege_checks, null_reads>>

\* Lines 313-319: ebpf_core_initiate.
CoreInitiate ==
    /\ driver_pc = "core_initiate"
    /\ \/ /\ core_initialized' = TRUE
          /\ driver_pc' = AfterStep(driver_pc)
       \/ /\ driver_pc' = "failed"
          /\ UNCHANGED core_initialized
    /\ UNCHANGED <<ebpf_execution_context_privileged_security_descriptor, accepting,
                   _ebpf_driver_unloading_flag, build_count, file, privilege_checks,
                   null_reads>>

\* Lines 321-327 and 78-187: _ebpf_driver_build_privileged_security_descriptor
\* sets the global at line 171, or fails and leaves it NULL; on a failure the
\* Exit: path of lines 331-342 terminates the core and deletes the device.
BuildDescriptor ==
    /\ driver_pc = "build_descriptor"
    /\ \/ /\ ebpf_execution_context_privileged_security_descriptor' = "allocated"
          /\ build_count' = build_count + 1
          /\ driver_pc' = AfterStep(driver_pc)
          /\ UNCHANGED <<core_initialized, accepting>>
       \/ /\ driver_pc' = "failed"
          /\ core_initialized' = FALSE
          /\ accepting' = FALSE
          /\ UNCHANGED <<ebpf_execution_context_privileged_security_descriptor, build_count>>
    /\ UNCHANGED <<_ebpf_driver_unloading_flag, file, privilege_checks, null_reads>>

\* Line 329: WdfControlFinishInitializing, from which on the I/O manager lets
\* user mode open the device.
FinishInitializing ==
    /\ driver_pc = "finish_initializing"
    /\ accepting' = TRUE
    /\ driver_pc' = AfterStep(driver_pc)
    /\ UNCHANGED <<ebpf_execution_context_privileged_security_descriptor,
                   _ebpf_driver_unloading_flag, core_initialized, build_count, file,
                   privilege_checks, null_reads>>

\* User mode opens the device: a file object.
OpenFile(f) ==
    /\ accepting
    /\ file[f] = "closed"
    /\ file' = [file EXCEPT ![f] = "open"]
    /\ UNCHANGED <<driver_pc, ebpf_execution_context_privileged_security_descriptor,
                   accepting, _ebpf_driver_unloading_flag, core_initialized, build_count,
                   privilege_checks, null_reads>>

\* The last reference of a file object with no request in flight goes away.
CloseFile(f) ==
    /\ file[f] = "open"
    /\ file' = [file EXCEPT ![f] = "closed"]
    /\ UNCHANGED <<driver_pc, ebpf_execution_context_privileged_security_descriptor,
                   accepting, _ebpf_driver_unloading_flag, core_initialized, build_count,
                   privilege_checks, null_reads>>

\* A privileged command arrives on a file object: _ebpf_driver_io_device_control
\* runs up to line 463.
DispatchPrivileged(f) ==
    /\ file[f] = "open"
    /\ privilege_checks < MaxPrivilegeChecks
    /\ file' = [file EXCEPT ![f] = "dispatch"]
    /\ UNCHANGED <<driver_pc, ebpf_execution_context_privileged_security_descriptor,
                   accepting, _ebpf_driver_unloading_flag, core_initialized, build_count,
                   privilege_checks, null_reads>>

\* Lines 370-393: SeAccessCheck reads the global descriptor.
PrivilegeCheck(f) ==
    /\ file[f] = "dispatch"
    /\ privilege_checks' = privilege_checks + 1
    /\ null_reads' = IF ebpf_execution_context_privileged_security_descriptor = "NULL"
                     THEN null_reads + 1 ELSE null_reads
    /\ file' = [file EXCEPT ![f] = "checked"]
    /\ UNCHANGED <<driver_pc, ebpf_execution_context_privileged_security_descriptor,
                   accepting, _ebpf_driver_unloading_flag, core_initialized, build_count>>

\* The request is completed: the file object has no request in flight.
DispatchDone(f) ==
    /\ file[f] = "checked"
    /\ file' = [file EXCEPT ![f] = "open"]
    /\ UNCHANGED <<driver_pc, ebpf_execution_context_privileged_security_descriptor,
                   accepting, _ebpf_driver_unloading_flag, core_initialized, build_count,
                   privilege_checks, null_reads>>

\* A driver whose unload routine is called with file objects left.
UnloadBeginWithFiles ==
    /\ driver_pc = "running"
    /\ _ebpf_driver_unloading_flag' = TRUE
    /\ driver_pc' = "unload_free"
    /\ UNCHANGED <<ebpf_execution_context_privileged_security_descriptor, accepting,
                   core_initialized, build_count, file, privilege_checks, null_reads>>

\* The driver is stopped.  The I/O manager calls the unload routine only when no
\* file object of the device is left, and opens no new one from then on.
\* Line 68: the flag.
UnloadBegin ==
    /\ driver_pc = "running"
    /\ \A f \in Files : file[f] = "closed"
    /\ accepting' = FALSE
    /\ _ebpf_driver_unloading_flag' = TRUE
    /\ driver_pc' = "unload_free"
    /\ UNCHANGED <<ebpf_execution_context_privileged_security_descriptor, core_initialized,
                   build_count, file, privilege_checks, null_reads>>

\* Lines 70-73: the descriptor is freed and the global reset.
UnloadFree ==
    /\ driver_pc = "unload_free"
    /\ ebpf_execution_context_privileged_security_descriptor' = "NULL"
    /\ driver_pc' = "unload_terminate"
    /\ UNCHANGED <<accepting, _ebpf_driver_unloading_flag, core_initialized, build_count,
                   file, privilege_checks, null_reads>>

\* Line 75: ebpf_core_terminate.
UnloadTerminate ==
    /\ driver_pc = "unload_terminate"
    /\ core_initialized' = FALSE
    /\ driver_pc' = "unloaded"
    /\ UNCHANGED <<ebpf_execution_context_privileged_security_descriptor, accepting,
                   _ebpf_driver_unloading_flag, build_count, file, privilege_checks,
                   null_reads>>

DriverNext ==
    /\ UNCHANGED <<vars, filter_vars>>
    /\ \/ InitializeStep
       \/ CoreInitiate
       \/ BuildDescriptor
       \/ FinishInitializing
       \/ \E f \in Files : OpenFile(f)
       \/ \E f \in Files : CloseFile(f)
       \/ \E f \in Files : DispatchPrivileged(f)
       \/ \E f \in Files : PrivilegeCheck(f)
       \/ \E f \in Files : DispatchDone(f)
       \/ UnloadBegin
       \/ UnloadFree
       \/ UnloadTerminate

DriverSpec == Init /\ [][DriverNext]_all_vars


(***************************************************************************)
(*                               Properties                                *)
(***************************************************************************)
\* The request is a command: it came with the command channel's control code.
IsCommand(i) == pc[i] # "none" /\ req[i].io_control_code = IOCTL_EBPF_CTL_METHOD_BUFFERED

\* The command's row of the command table, by the id of its header.
Row(i) == ebpf_core_get_protocol_handler_properties(req[i].id)

\* The kind of the error taxonomy a status is, "none" when it is none of
\* them.  Four pairs are fixed by the dispatcher's own rejections and the
\* kinds the command channel gives those rejections: STATUS_INVALID_PARAMETER
\* for a zero-length or short input (lines 451 and 522) is InvalidArgument,
\* STATUS_NOT_SUPPORTED for an unknown command is NotSupported,
\* STATUS_ACCESS_DENIED (line 466) is AccessDenied, STATUS_BUFFER_TOO_SMALL
\* for a reply that does not fit (line 493) is BufferTooSmall.  The others go
\* by their names.  STATUS_INVALID_DEVICE_REQUEST (line 527) and the general
\* failure STATUS_UNSUCCESSFUL are the statuses of the model that the
\* taxonomy has no kind for.
ErrorKind(st) ==
    CASE st = "STATUS_SUCCESS" -> "Success"
      [] st = "STATUS_INVALID_PARAMETER" -> "InvalidArgument"
      [] st = "STATUS_NOT_SUPPORTED" -> "NotSupported"
      [] st = "STATUS_ACCESS_DENIED" -> "AccessDenied"
      [] st = "STATUS_BUFFER_TOO_SMALL" -> "BufferTooSmall"
      [] st = "STATUS_INSUFFICIENT_RESOURCES" -> "NoMemory"
      [] st = "STATUS_CANCELLED" -> "Cancelled"
      [] st = "STATUS_INTERNAL_ERROR" -> "Internal"
      [] OTHER -> "none"

\* The command is completed, once, with an error of this kind, and dispatch has
\* not run past its end without completing it.
CompletesWith(i, kind) ==
    /\ completions[i] <= 1
    /\ completions[i] = 1 => ErrorKind(completed_status[i]) = kind
    /\ pc[i] = "returned" => completions[i] = 1

\* The conditions of the claims on the caller's inputs.
ShortInput(i) == req[i].input_buffer_length < HeaderSize
UnknownCommand(i) == ~ShortInput(i) /\ Row(i).result # "EBPF_SUCCESS"
PrivilegeRefused(i) == ~ShortInput(i) /\ ~UnknownCommand(i) /\ Row(i).privileged /\ caller_answer[i] = "no"
PassedPrivilege(i) ==
    /\ ~ShortInput(i) /\ ~UnknownCommand(i)
    /\ pc[i] # "validate"
    /\ Row(i).privileged => caller_answer[i] = "yes"
ReplyDoesNotFit(i) ==
    PassedPrivilege(i) /\ Row(i).minimum_reply_size > 0
        /\ req[i].output_buffer_length < Row(i).minimum_reply_size
PassesValidation(i) == PassedPrivilege(i) /\ ~ReplyDoesNotFit(i)

\* Every thread that works on the request has left it.
Finished(i) ==
    /\ pc[i] = "returned"
    /\ handler_state[i] # "pending"
    /\ cb_pc[i] \in {"idle", "done"}
    /\ cancel_pc[i] # "callback"

\* C1: a request is completed to the caller exactly once: whatever the
\* interleaving of the dispatcher's Done: block, the completion callback and a
\* cancel, the completions of one request never reach 2, and they are 1 once
\* the dispatcher, the handler and the callbacks have finished with it.
C1_CompletedExactlyOnce == \A i \in RequestNumbers :
    /\ completions[i] <= 1
    /\ Finished(i) => completions[i] = 1

\* C1's case: an async command that was cancelled while pending, whose hint
\* reached the handler, completed by the callback after dispatch returned,
\* while the dispatcher is in its Done: block for another request.
C1_Witness == \E i \in RequestNumbers :
    /\ Finished(i)
    /\ \E j \in RequestNumbers : j # i /\ pc[j] = "Done"
    /\ status[i] = "STATUS_PENDING"
    /\ cancel_hints[i] = 1
    /\ completed_by[i] = "callback"
    /\ completions[i] = 1

\* C2: no silent drops: every request delivered to the dispatcher, whatever its
\* control code, lengths and command and whatever the other requests in the
\* driver are doing, is eventually completed, given that the threads are
\* scheduled and a handler that returned pending calls the completion
\* callback.  A delivered request stays delivered and a completed one stays
\* completed, so this is: again and again every delivered request is completed.
C2_NoSilentDrops ==
    []<>(\A i \in RequestNumbers : pc[i] # "none" => completions[i] = 1)

\* C2's case: the last request of the stream was dispatched while an earlier
\* one was pending in its handler; it was left pending by dispatch and then
\* completed by its handler, nobody having cancelled it, the earlier one still
\* pending.
C2_Witness == \E i \in RequestNumbers :
    /\ delivered = MaxRequests
    /\ pc[i] = "returned"
    /\ status[i] = "STATUS_PENDING"
    /\ ~irp_cancel[i]
    /\ completions[i] = 1
    /\ \E j \in RequestNumbers : j < i /\ handler_state[j] = "pending" /\ completions[j] = 0

\* C3: a command whose input is shorter than the request header, an empty
\* input included, is completed with InvalidArgument; its handler is never
\* invoked and no cancellation is registered for it.
C3_ShortInputInvalidArgument == \A i \in RequestNumbers :
    (IsCommand(i) /\ ShortInput(i)) =>
        /\ pc[i] = "validate" \/ CompletesWith(i, "InvalidArgument")
        /\ handler_calls[i] = 0
        /\ mark_calls[i] = 0
        /\ ~cancelable[i]

\* C3's case: a command with a non-empty input one byte short of the header,
\* completed.
C3_Witness == \E i \in RequestNumbers :
    /\ IsCommand(i)
    /\ req[i].input_buffer_length = HeaderSize - 1
    /\ completions[i] = 1
    /\ completed_status[i] = "STATUS_INVALID_PARAMETER"

\* C4: a command with a well-formed header whose id is not in the command table
\* is completed with NotSupported, and the dispatcher never reaches the
\* registration of the cancellation or the invocation of the handler.
C4_UnknownCommandNotSupported == \A i \in RequestNumbers :
    (IsCommand(i) /\ UnknownCommand(i)) =>
        /\ pc[i] = "validate" \/ CompletesWith(i, "NotSupported")
        /\ pc[i] \notin {"mark_cancelable", "invoke"}
        /\ handler_calls[i] = 0

\* C4's case: an unknown id in a full-size header, completed.
C4_Witness == \E i \in RequestNumbers :
    /\ IsCommand(i)
    /\ req[i].input_buffer_length = HeaderSize
    /\ req[i].id = UnknownId
    /\ completions[i] = 1
    /\ completed_status[i] = "STATUS_NOT_SUPPORTED"

\* C5: a privileged command for which the capability check answers no is
\* completed with AccessDenied and its handler is never invoked; the handler of
\* a privileged command runs only after the capability check of that dispatch
\* answered yes.
C5_PrivilegeCheckGuardsHandler == \A i \in RequestNumbers :
    /\ (IsCommand(i) /\ PrivilegeRefused(i)) =>
           /\ CompletesWith(i, "AccessDenied")
           /\ handler_calls[i] = 0
    /\ (IsCommand(i) /\ privileged[i] /\ (handler_calls[i] > 0 \/ pc[i] \in {"mark_cancelable", "invoke"}))
           => caller_answer[i] = "yes"

\* C5's case: the privileged async command, refused, completed; the caller had
\* asked to cancel it as well.
C5_Witness == \E i \in RequestNumbers :
    /\ IsCommand(i)
    /\ req[i].id = 3
    /\ caller_answer[i] = "no"
    /\ irp_cancel[i]
    /\ completions[i] = 1
    /\ completed_status[i] = "STATUS_ACCESS_DENIED"

\* C6: for a command that expects a reply and has passed the earlier checks, an
\* output capacity below the minimum reply size completes the command with
\* BufferTooSmall and the handler is not invoked; for a command that expects no
\* reply the output capacity, whatever it is, rejects nothing.
C6_ReplyCapacity == \A i \in RequestNumbers :
    /\ (IsCommand(i) /\ ReplyDoesNotFit(i)) =>
           /\ CompletesWith(i, "BufferTooSmall")
           /\ handler_calls[i] = 0
    /\ (IsCommand(i) /\ PassedPrivilege(i) /\ Row(i).minimum_reply_size = 0) =>
           /\ reject[i] = "none"
           /\ pc[i] \in {"Done", "done_dereference", "done_complete", "returned"}
                  => handler_calls[i] = 1

\* C6's case: the async command that expects a reply, with a capacity one byte
\* short, completed.
C6_Witness == \E i \in RequestNumbers :
    /\ IsCommand(i)
    /\ req[i].id = 2
    /\ req[i].output_buffer_length = ReplySize - 1
    /\ completions[i] = 1
    /\ completed_status[i] = "STATUS_BUFFER_TOO_SMALL"

\* C7: a command that validation rejects (short or empty input, unknown
\* command, refused privilege, reply capacity too small) changes nothing: the
\* count of handler invocations, the request's reference count and its
\* cancellation registration stay what they were when it was delivered.
C7_RejectedChangesNothing == \A i \in RequestNumbers :
    (IsCommand(i) /\ (ShortInput(i) \/ UnknownCommand(i) \/ PrivilegeRefused(i) \/ ReplyDoesNotFit(i))) =>
        /\ handler_calls[i] = 0
        /\ ref_count[i] = 0
        /\ mark_calls[i] = 0
        /\ ~cancelable[i]
        /\ cancel_pc[i] = "idle"
        /\ cancel_hints[i] = 0
        /\ cb_pc[i] = "idle"

\* C7's case: an async command rejected for its reply capacity has run to the
\* end of dispatch, with a cancel of the caller on top.
C7_Witness == \E i \in RequestNumbers :
    /\ IsCommand(i)
    /\ ReplyDoesNotFit(i)
    /\ Row(i).async
    /\ irp_cancel[i]
    /\ pc[i] = "returned"
    /\ completions[i] = 1

\* C8: a command without the async flag that passes validation has its handler
\* invoked exactly once, inline, and is completed before dispatch returns with
\* the status the handler returned; no cancellation is registered and no extra
\* reference is taken.
C8_SyncCompletesInline == \A i \in RequestNumbers :
    (IsCommand(i) /\ PassesValidation(i) /\ ~Row(i).async) =>
        /\ mark_calls[i] = 0 /\ ~cancelable[i] /\ ref_count[i] = 0 /\ cb_pc[i] = "idle"
        /\ pc[i] = "invoke" => handler_calls[i] = 0 /\ completions[i] = 0
        /\ pc[i] = "Done" => handler_calls[i] = 1 /\ completions[i] = 0
        /\ pc[i] = "returned" =>
               /\ handler_calls[i] = 1
               /\ completions[i] = 1
               /\ completed_by[i] = "dispatcher"
               /\ completed_status[i] = ebpf_result_to_ntstatus(handler_result[i])
        /\ pc[i] \in {"invoke", "Done", "returned"}

\* C8's case: the privileged sync command, accepted, whose handler failed.
C8_Witness == \E i \in RequestNumbers :
    /\ IsCommand(i)
    /\ req[i].id = 1
    /\ pc[i] = "returned"
    /\ handler_result[i] = "EBPF_NO_MEMORY"
    /\ completed_status[i] = "STATUS_INSUFFICIENT_RESOURCES"

\* A step of the cancel path: the caller's cancel, or the cancel callback.
CancelStep(i) ==
    /\ delivered' = delivered
    /\ irp_cancel'[i] # irp_cancel[i] \/ cancel_pc'[i] # cancel_pc[i]

\* C9: a cancel never completes a command by itself: no step of the cancel
\* path completes the request or stands in for the handler, and a command that
\* was cancelled while its handler was pending is completed only by the
\* handler's call of the completion callback.
C9_CancelNeverCompletes ==
    /\ [][\A i \in RequestNumbers : CancelStep(i) =>
            UNCHANGED <<completions, completed_status, completed_information, completed_by,
                        handler_calls, handler_state, callback_vars>>]_vars
    /\ [](\A i \in RequestNumbers : status[i] = "STATUS_PENDING" /\ irp_cancel[i] /\ completions[i] > 0 =>
            completed_by[i] = "callback" /\ handler_state[i] = "completed")

\* C9's case: the cancel callback has passed the hint to the pending handler,
\* dispatch has returned, and the command is still uncompleted.
C9_Witness == \E i \in RequestNumbers :
    /\ pc[i] = "returned"
    /\ cancel_pc[i] = "done"
    /\ cancel_hints[i] = 1
    /\ handler_state[i] = "pending"
    /\ completions[i] = 0

\* A cancel of the caller arrives for a command the completion callback has
\* completed already.
CancelAfterCompletion(i) ==
    /\ delivered' = delivered
    /\ completions[i] = 1
    /\ completed_by[i] = "callback"
    /\ ~irp_cancel[i]
    /\ irp_cancel'[i]

\* C10: once an async command is Completed because its handler completed first,
\* a cancel that arrives afterwards is a no-op: no second completion, no call
\* of the cancel callback or into the handler, no change of the command's
\* state or of its reference count.
C10_LateCancelIsNoOp ==
    /\ [][\A i \in RequestNumbers : CancelAfterCompletion(i) =>
            UNCHANGED <<dispatcher_vars, request_vars, cancel_pc, handler_vars,
                        callback_vars>>]_vars
    /\ [](\A i \in RequestNumbers : cancel_at[i] = "completed" /\ completed_by[i] = "callback" =>
            completions[i] = 1 /\ cancel_pc[i] = "idle" /\ cancel_hints[i] = 0 /\ ~cancelable[i])

\* C10's case: the handler completed, the callback ran to its end, then the
\* caller cancelled.
C10_Witness == \E i \in RequestNumbers :
    /\ cancel_at[i] = "completed"
    /\ completed_by[i] = "callback"
    /\ cb_pc[i] = "done"
    /\ completions[i] = 1
    /\ ref_count[i] = 0

\* The kinds of the error taxonomy.
ErrorKinds == {"Success", "InvalidArgument", "NotSupported", "AccessDenied",
               "BufferTooSmall", "NoMemory", "Cancelled", "Internal"}

RejectionKinds == {"InvalidArgument", "NotSupported", "AccessDenied", "BufferTooSmall"}

\* The result a completed command carries: what the handler completed with
\* when the completion callback completed the request, what it returned when
\* the dispatcher did.
CarriedResult(i) ==
    IF completed_by[i] = "callback" THEN cb_result[i] ELSE handler_result[i]

Resolved(record) ==
    record.state \in {NET_EBPF_EXT_WFP_FILTER_DELETED, NET_EBPF_EXT_WFP_FILTER_DELETE_FAILED}
AllRulesResolved == \A index \in DOMAIN filter_ids : Resolved(filter_ids[index])
RulesInState(state) == {index \in DOMAIN filter_ids : filter_ids[index].state = state}

\* begin_delete was called and every client that attached has detached.
DeletedAndDetached == context_deleting /\ client_context_count = 0

\* C12: a filter context that was created, attached to and detached from as
\* many times, and deleted, is eventually freed, and it is never freed twice:
\* whatever the interleaving of the detaches with the rule-deletion callbacks
\* and whatever the order in which the deletions complete.
C12_FreedExactlyOnce ==
    /\ [](free_count <= 1)
    /\ [](filter_context = "freed" => free_count = 1)
    /\ DeletedAndDetached ~> (filter_context = "freed" /\ free_count = 1)

\* C12's case: three rules all notified as deleted, a detach that came after
\* begin_delete, and the context freed.
C12_Witness ==
    /\ filter_context = "freed"
    /\ free_count = 1
    /\ Len(filter_ids) = 3
    /\ RulesInState(NET_EBPF_EXT_WFP_FILTER_DELETED) = {1, 2, 3}
    /\ call.op = "detach"
    /\ call.result = "removed"

\* C13: the context is cleaned up and freed only when its reference count is
\* zero, every rule has been resolved (deleted or delete-failed) and, for the
\* free, the provider's rundown reference has been released; while references
\* remain after the last rule was resolved, or rules remain unresolved, nobody
\* has started to clean up.
C13_FreedOnlyWhenAllReleased ==
    /\ finalize_pc # "idle" => reference_count = 0 /\ AllRulesResolved
    /\ filter_context = "freed" =>
            reference_count = 0 /\ AllRulesResolved /\ ~provider_reference /\ leave_count = 1
    /\ reference_count > 0 => finalize_pc = "idle" /\ filter_context # "freed"
    /\ ~AllRulesResolved => reference_count > 0

\* C13's case: the last rule was resolved while a client is still attached, and
\* the context is not freed.
C13_Witness ==
    /\ filter_context = "allocated"
    /\ Len(filter_ids) = 3
    /\ AllRulesResolved
    /\ delete_pc.pc = "done"
    /\ client_context_count = 1
    /\ reference_count = 1
    /\ finalize_pc = "idle"

\* A call of attach or of detach has just returned.
AttachStep == call' # call /\ call'.op = "attach"
DetachStep == (call' # call \/ detach_calls' # detach_calls) /\ call'.op = "detach"

\* C14: a filter context is created with the capacity 16 (multi-attach) or 1
\* (single attach); an attach of a new client succeeds while fewer clients than
\* the capacity are attached, and fails with EBPF_NO_MEMORY, leaving the client
\* array and the client count as they were, when the array is full; whatever
\* the attaches and detaches, 0 <= client count <= capacity, and the count is
\* the number of clients in the array.
C14_CapacityBoundsClients ==
    /\ [](filter_context = "allocated" =>
            /\ client_context_count_max \in Capacities
            /\ 0 <= client_context_count
            /\ client_context_count <= client_context_count_max
            /\ client_context_count = Cardinality(AttachedClients)
            /\ Cardinality(FreeSlots) = client_context_count_max - client_context_count)
    /\ [][AttachStep =>
            IF client_context_count < client_context_count_max
            THEN /\ call'.result = "EBPF_SUCCESS"
                 /\ client_context_count' = client_context_count + 1
                 /\ AttachedClients' = AttachedClients \cup {call'.client}
            ELSE /\ call'.result = "EBPF_NO_MEMORY"
                 /\ UNCHANGED <<client_contexts, client_context_count>>]_all_vars

\* C14's case: sixteen clients are attached to a multi-attach context and the
\* seventeenth was refused.
C14_Witness ==
    /\ client_context_count_max = NET_EBPF_EXT_MAX_CLIENTS_PER_HOOK_MULTI_ATTACH
    /\ client_context_count = NET_EBPF_EXT_MAX_CLIENTS_PER_HOOK_MULTI_ATTACH
    /\ call = [op |-> "attach",
               client |-> NET_EBPF_EXT_MAX_CLIENTS_PER_HOOK_MULTI_ATTACH + 1,
               result |-> "EBPF_NO_MEMORY"]

\* C15: a successful attach of a client immediately followed by the detach of
\* that client restores the client count and the attached clients (and the
\* array, slot by slot) to what they were before the attach.
C15_AttachDetachRestores ==
    snapshot.closed =>
        /\ client_context_count = snapshot.count
        /\ AttachedClients = {snapshot.contexts[slot] : slot \in DOMAIN snapshot.contexts} \ {NULL}
        /\ client_contexts = snapshot.contexts
        /\ snapshot.client \notin AttachedClients

\* C15's case: a client attached to a context that had other clients and an
\* empty slot below them, and detached again.
C15_Witness ==
    /\ snapshot.closed
    /\ call = [op |-> "detach", client |-> snapshot.client, result |-> "removed"]
    /\ client_context_count >= 2
    /\ \E slot \in DOMAIN client_contexts :
            client_contexts[slot] = NULL /\ slot < client_context_count

\* C16: the detach of a client that is not attached to the context leaves the
\* client array, the client count and the reference count unchanged.
C16_DetachAbsentChangesNothing ==
    [][DetachStep /\ call'.client \notin AttachedClients =>
            UNCHANGED <<client_contexts, client_context_count, reference_count,
                        finalize_pc>>]_all_vars

\* C16's case: a detach of a client that is not attached, on a context that
\* has clients attached.
C16_Witness ==
    /\ call.op = "detach"
    /\ call.result = "absent"
    /\ call.client \notin AttachedClients
    /\ client_context_count >= 1
    /\ reference_count = client_context_count + 1

\* The references the context owes: its own until begin_delete has released
\* it, one for each attached client, one for each installed rule that is not
\* resolved, one for each filter an add in progress has added.
OwnReference == IF delete_pc.pc = "done" THEN 0 ELSE 1
UnresolvedRules == {index \in DOMAIN filter_ids : ~Resolved(filter_ids[index])}
ReferencesHeld ==
    OwnReference + client_context_count + Cardinality(UnresolvedRules)
        + Len(add.local_filter_ids)

\* C17: the reference count is never negative: from creation on it is the
\* context's own reference plus one for each attached client and one for each
\* outstanding rule, so it goes up by one with an attach and with a rule
\* installed, down by one with the matching detach and with the rule resolved,
\* and no release is applied to a count of zero.
C17_ReferenceCountAccounts ==
    /\ [](reference_count >= 0)
    /\ [](filter_context # "NULL" => reference_count = ReferencesHeld)
    /\ [][reference_count' < reference_count => reference_count > 0]_all_vars

\* C17's case: after begin_delete has released the context's own reference, a
\* client attached and a rule awaiting its notification hold the count at 2.
C17_Witness ==
    /\ filter_context = "allocated"
    /\ delete_pc.pc = "done"
    /\ client_context_count = 1
    /\ Cardinality(RulesInState(NET_EBPF_EXT_WFP_FILTER_DELETING)) = 1
    /\ Cardinality(RulesInState(NET_EBPF_EXT_WFP_FILTER_DELETED)) = 2
    /\ reference_count = 2

\* C18: a filter context holds its rundown reference on the provider from its
\* creation until the thread that brought its count to zero releases it, once,
\* as the first step of the clean-up and not before the count is zero; so the
\* provider's rundown never completes while a context created against it has
\* references.
C18_ProviderReferenceHeld ==
    /\ provider_reference <=> (filter_context # "NULL" /\ finalize_pc \in {"idle", "leave_rundown"})
    /\ rundown_count = IF provider_reference THEN 1 ELSE 0
    /\ leave_count <= 1
    /\ leave_count = 1 => reference_count = 0 /\ ~provider_reference
    /\ reference_count > 0 => provider_reference /\ leave_count = 0
    /\ rundown_state = "completed" => ~provider_reference /\ reference_count = 0

\* C18's case: the provider's rundown waited for the context and completed
\* after the context released its reference.
C18_Witness ==
    /\ rundown_state = "completed"
    /\ leave_count = 1
    /\ filter_context = "freed"
    /\ Len(filter_ids) > 0

FailedRules == RulesInState(NET_EBPF_EXT_WFP_FILTER_DELETE_FAILED)

\* C19: when the deletion of a rule fails, its record is delete-failed with the
\* error code stored; the deletion is asked once and not again, the record
\* never changes afterwards, and the context that owns the rule is still
\* eventually freed once its clients have detached.
C19_DeleteFailedIsFinal ==
    /\ [](\A index \in DOMAIN filter_ids :
            /\ Requested(filter_ids[index].id) <= 1
            /\ index \in FailedRules
                 <=> filter_ids[index].error_code \in DeleteErrors
            /\ index \in FailedRules =>
                 /\ Requested(filter_ids[index].id) = 1
                 /\ filter_ids[index].id \notin wfp_deleting)
    /\ [][\A index \in FailedRules :
            /\ filter_ids'[index] = filter_ids[index]
            /\ Requested(filter_ids[index].id)' = Requested(filter_ids[index].id)]_all_vars
    /\ (FailedRules # {} /\ client_context_count = 0) ~> (filter_context = "freed")

\* C19's case: one rule's deletion failed, the others were notified as
\* deleted, and the context is freed.
C19_Witness ==
    /\ filter_context = "freed"
    /\ Len(filter_ids) = 3
    /\ FailedRules = {2}
    /\ filter_ids[2].error_code = "STATUS_FWP_IN_USE"
    /\ RulesInState(NET_EBPF_EXT_WFP_FILTER_DELETED) = {1, 3}

\* A call of add_rules has just returned an error.
AddFiltersFails == add.pc = "abort" /\ add'.pc = "idle"

\* C20: add_rules is all-or-nothing: when the k-th rule cannot be installed,
\* the k-1 rules installed before it are removed and their references given
\* back before the error is returned, and the context's rule records are as
\* they were before the call.
C20_AddRulesAllOrNothing ==
    /\ [][AddFiltersFails =>
            /\ Len(add.local_filter_ids) = add.fail_at - 1
            /\ wfp_filters' = wfp_filters \ RecordIds(add.local_filter_ids)
            /\ reference_count' = reference_count - Len(add.local_filter_ids)
            /\ filter_ids' = filter_ids
            /\ call' = [op |-> "add_rules", client |-> NULL,
                        result |-> "EBPF_INVALID_ARGUMENT"]]_all_vars
    /\ [](call.op = "add_rules" /\ call.result # "EBPF_SUCCESS" /\ add.pc = "idle" =>
            /\ wfp_filters = {}
            /\ filter_ids = <<>>
            /\ reference_count = OwnReference + client_context_count)
    /\ [](add.pc # "idle" => filter_ids = <<>>)

\* C20's case: the third rule of a call was refused after two were installed,
\* and the call has returned.
C20_Witness ==
    /\ call = [op |-> "add_rules", client |-> NULL, result |-> "EBPF_INVALID_ARGUMENT"]
    /\ add.pc = "idle"
    /\ add.fail_at = 3
    /\ filter_context = "allocated"
    /\ wfp_filters = {}
    /\ filter_ids = <<>>

(***************************************************************************)
(*                  Properties of the cleanup coordinator                  *)
(***************************************************************************)
\* drain returns.
DrainReturns == drain_result = "none" /\ drain_result' # "none"

SignalFires == signal_count' > signal_count

\* C22: once drain has asked for the signal, the signal is fired by the
\* removal that leaves the filter cleanup list empty and by no other: never
\* while a filter context is still listed, never by a removal that removes
\* nothing, at most once, and not missed, in whatever order the listed
\* contexts are removed.
C22_LastRemovalSignals ==
    /\ [][SignalFires =>
            /\ signal_empty_filter_list
            /\ filter_cleanup_list # {}
            /\ filter_cleanup_list' = {}
            /\ signal_count' = 1]_all_vars
    /\ [](wfp_filter_cleanup_event => signal_empty_filter_list /\ filter_cleanup_list = {})
    /\ [](signal_empty_filter_list /\ filter_cleanup_list = {} /\ drain_pc.filters > 0 =>
            wfp_filter_cleanup_event /\ signal_count = 1)

\* C22's case: drain is waiting for three listed filter contexts, all three
\* were removed, and the event is signaled, once.
C22_Witness ==
    /\ drain_pc.pc = "waiting"
    /\ drain_pc.filters = 3
    /\ filter_cleanup_list = {}
    /\ wfp_filter_cleanup_event
    /\ signal_count = 1

\* C24: for an async command that passed validation the dispatcher has taken
\* the extra request reference and registered the cancellation callback before
\* it invokes the handler: the handler is never about to run, and has never
\* run, for an async command whose cancellation was not registered, and the
\* step that invokes it finds the reference held.
C24_AsyncMarkedBeforeHandler ==
    /\ [](\A i \in RequestNumbers : async[i] /\ (pc[i] = "invoke" \/ handler_calls[i] > 0)
            => mark_calls[i] = 1 /\ wdf_request_ref_acquired[i])
    /\ [][\A i \in RequestNumbers : InvokeHandler(i) /\ async[i] => mark_calls[i] = 1 /\ ref_count[i] = 1]_all_vars

\* The handler of an async command has been invoked and has returned pending,
\* the request still cancelable.
C24_Witness == \E i \in RequestNumbers :
    /\ async[i]
    /\ handler_calls[i] = 1
    /\ handler_state[i] = "pending"
    /\ mark_calls[i] = 1
    /\ cancelable[i]

\* The cancellation of the command was registered and the registration is gone:
\* a cancel request no longer reaches the cancel callback.
RegistrationRemoved(i) == async[i] /\ mark_calls[i] = 1 /\ ~cancelable[i]

\* C25 as stated: for an async command the completion comes before the
\* cancellation registration is removed: in no state is the registration
\* removed while the command is uncompleted.
C25_CompletedBeforeInert == \A i \in RequestNumbers : RegistrationRemoved(i) => completions[i] > 0

\* C25: for an async command the cancellation registration is removed before
\* the user-visible completion, by the path that completes: no command is
\* completed while it is marked cancelable, and only a step of the completion
\* callback, of the dispatcher's failure path, or the delivery of a cancel
\* request removes a registration.
C25_InertBeforeCompleted ==
    /\ [](\A i \in RequestNumbers : completions[i] > 0 => ~cancelable[i])
    /\ [][\A i \in RequestNumbers : completions'[i] > completions[i] => ~cancelable[i]]_all_vars
    /\ [][\A i \in RequestNumbers : cancelable[i] /\ ~cancelable'[i] => CompleteUnmark(i) \/ DoneUnmark(i) \/ CancelIo(i)]_all_vars

\* The completion callback has removed the registration and has not completed
\* the request yet; nobody asked for a cancel.
C25_Witness == \E i \in RequestNumbers :
    /\ RegistrationRemoved(i)
    /\ cb_pc[i] = "complete"
    /\ completions[i] = 0
    /\ ~irp_cancel[i]

\* A step that takes the filter context off the cleanup list.
LeavesCleanupList ==
    /\ FilterContext \in filter_cleanup_list
    /\ FilterContext \notin filter_cleanup_list'

\* C26: a filter context leaves the cleanup list only after every rule-deletion
\* callback for it has fired: once begin_delete has put it on the list, it is
\* never off the list while one of its rules is in state deleting, and the step
\* that takes it off the list finds no rule in that state.
C26_LeavesListAfterCallbacks ==
    /\ [](context_deleting /\ FilterContext \notin filter_cleanup_list
            => RulesInState(NET_EBPF_EXT_WFP_FILTER_DELETING) = {} /\ wfp_deleting = {})
    /\ [][LeavesCleanupList => (RulesInState(NET_EBPF_EXT_WFP_FILTER_DELETING) = {})]_all_vars

\* The context has left the list after the deletion callbacks of two of its
\* rules.
C26_Witness ==
    /\ context_deleting
    /\ FilterContext \notin filter_cleanup_list
    /\ Cardinality(RulesInState(NET_EBPF_EXT_WFP_FILTER_DELETED)) >= 2

\* The caller asked for the cancel of the command before it was completed, and
\* the handler's completion callback has completed it since.
CancelledThenCompleted(i) ==
    /\ irp_cancel[i]
    /\ cancel_at[i] = "uncompleted"
    /\ completions[i] > 0
    /\ completed_by[i] = "callback"

\* C27: when a cancel is requested for an async command before its handler
\* completes, and the handler then completes with result R and a reply length,
\* the completion carries R's status and that length: neither the cancel
\* callback nor the completion callback puts Cancelled in its place, and a
\* cancelled status is seen only when R itself is the handler's cancelled
\* result.
C27_CancelledCommandCarriesResult ==
    /\ [](\A i \in RequestNumbers : CancelledThenCompleted(i) =>
            /\ completed_status[i] = ebpf_result_to_ntstatus(cb_result[i])
            /\ completed_information[i] = cb_length[i]
            /\ (completed_status[i] = "STATUS_CANCELLED" => cb_result[i] = "EBPF_CANCELED"))
    /\ [][\A i \in RequestNumbers : CompleteRequest(i) /\ irp_cancel[i] =>
            /\ completed_status'[i] = ebpf_result_to_ntstatus(cb_result[i])
            /\ completed_information'[i] = cb_length[i]]_all_vars

\* The cancel callback passed the hint to the pending handler, which then
\* completed with success and a reply.
C27_Witness == \E i \in RequestNumbers :
    /\ CancelledThenCompleted(i)
    /\ cancel_hints[i] = 1
    /\ cb_result[i] = "EBPF_SUCCESS"
    /\ completed_status[i] = "STATUS_SUCCESS"
    /\ completed_information[i] = handler_output_length[i]
    /\ completed_information[i] > 0

\* The handler of an async command has returned at once instead of pending.
AsyncFailedSynchronously(i) ==
    /\ async[i]
    /\ handler_calls[i] = 1
    /\ handler_result[i] # "EBPF_PENDING"

\* C28: when the handler of an async command fails synchronously, the
\* dispatcher itself removes the cancellation registration, releases the
\* request reference and completes the request with the handler's error before
\* it returns; the completion callback never runs for that request, neither
\* before nor after the dispatcher's completion.
C28_SyncFailureCompletedByDispatcher ==
    /\ [](\A i \in RequestNumbers : AsyncFailedSynchronously(i) =>
            /\ cb_pc[i] = "idle"
            /\ handler_state[i] = "returned"
            /\ (completions[i] > 0 =>
                  /\ completions[i] = 1
                  /\ completed_by[i] = "dispatcher"
                  /\ completed_status[i] = ebpf_result_to_ntstatus(handler_result[i])
                  /\ ~cancelable[i]
                  /\ ref_count[i] = 0)
            /\ (pc[i] = "returned" => completions[i] = 1))
    /\ [][\A i \in RequestNumbers : AsyncFailedSynchronously(i) => ~(CompleteUnmark(i) \/ CompleteRequest(i) \/ CompleteDereference(i))]_all_vars

\* The dispatcher has completed an async command with its handler's error and
\* has returned; the request was marked cancelable until the failure path.
C28_Witness == \E i \in RequestNumbers :
    /\ AsyncFailedSynchronously(i)
    /\ pc[i] = "returned"
    /\ completed_by[i] = "dispatcher"
    /\ completed_status[i] = "STATUS_INVALID_PARAMETER"
    /\ mark_calls[i] = 1
    /\ ref_count[i] = 0
    /\ ~irp_cancel[i]

\* A step of the completion callback or of the cancel callback that is handed
\* the request: lines 357 and 359, and line 367.
UsesRequest(i) == CompleteUnmark(i) \/ CompleteRequest(i) \/ CancelCallback(i)

\* The extra reference of the request (line 500) is taken only for an async
\* command that passed validation, and is released once: by the completion
\* callback (line 360) or by the dispatcher's failure path (line 537), never by
\* both.
ReferenceReleasedOnce ==
    /\ [](\A i \in RequestNumbers : ref_count[i] \in {0, 1})
    /\ [](\A i \in RequestNumbers : ref_count[i] = 1 => async[i] /\ reject[i] = "none" /\ mark_calls[i] = 1)
    /\ [](\A i \in RequestNumbers : ~async[i] \/ reject[i] # "none" =>
            mark_calls[i] = 0 /\ ~wdf_request_ref_acquired[i] /\ ref_count[i] = 0)
    /\ [](\A i \in RequestNumbers : pc[i] = "returned" /\ completions[i] = 1 /\ cb_pc[i] \in {"idle", "done"} => ref_count[i] = 0)
    /\ [][\A i \in RequestNumbers : CompleteDereference(i) => ref_count[i] = 1 /\ pc[i] \notin {"done_dereference", "done_complete"}]_all_vars
    /\ [][\A i \in RequestNumbers : DoneDereference(i) => ref_count[i] = 1 /\ cb_pc[i] = "idle"]_all_vars

\* C30: the extra request reference taken at the dispatch of an async command
\* is released exactly once, by the completion callback or by the dispatcher's
\* failure path and never by both; no step of the completion callback or of the
\* cancel callback uses the request after that release; sync and rejected
\* commands never take the reference.
C30_ReleasedOnceNeverUsedAfter ==
    /\ ReferenceReleasedOnce
    /\ [][\A i \in RequestNumbers : UsesRequest(i) => ref_count[i] = 1]_all_vars

\* The reply the command asks for does not fit the caller's output buffer.
ReplyTooLarge(i) ==
    Row(i).minimum_reply_size > 0 /\ req[i].output_buffer_length < Row(i).minimum_reply_size

\* The first check of the order input length, command lookup, privilege, reply
\* capacity that the command fails, by the caller's inputs alone.
FirstFailingCheck(i) ==
    IF ShortInput(i) THEN "InvalidArgument"
    ELSE IF UnknownCommand(i) THEN "NotSupported"
    ELSE IF PrivilegeRefused(i) THEN "AccessDenied"
    ELSE IF ReplyTooLarge(i) THEN "BufferTooSmall"
    ELSE "none"

\* C31: the validation checks are applied in the order input length, command
\* lookup, privilege, reply capacity, and the first check that fails alone
\* decides the outcome, the later ones are not made: a privileged command from
\* an unprivileged caller whose reply would not fit completes with
\* AccessDenied and its reply buffer is not looked at; an unknown command id
\* completes with NotSupported, the caller's privilege is not asked and the
\* reply buffer is not looked at; the caller of a known privileged command is
\* always asked, and such a command is refused for its reply capacity only
\* when the caller is privileged.
C31_FirstFailingCheckDecides == \A i \in RequestNumbers :
    IsCommand(i) /\ pc[i] # "validate" =>
        /\ FirstFailingCheck(i) # "none" =>
              CompletesWith(i, FirstFailingCheck(i)) /\ handler_calls[i] = 0
        /\ PrivilegeRefused(i) /\ ReplyTooLarge(i) =>
              /\ status[i] = "STATUS_ACCESS_DENIED"
              /\ actual_output_length[i] = 0
        /\ UnknownCommand(i) =>
              /\ status[i] = "STATUS_NOT_SUPPORTED"
              /\ caller_answer[i] = "unasked"
              /\ actual_output_length[i] = 0
        /\ ShortInput(i) => caller_answer[i] = "unasked" /\ actual_output_length[i] = 0
        /\ ~ShortInput(i) /\ ~UnknownCommand(i) /\ Row(i).privileged =>
              /\ caller_answer[i] \in {"yes", "no"}
              /\ (status[i] = "STATUS_BUFFER_TOO_SMALL" => caller_answer[i] = "yes")

\* A privileged command of an unprivileged caller, with a reply buffer that is
\* too small, has been completed with access denied.
C31_Witness == \E i \in RequestNumbers :
    /\ IsCommand(i)
    /\ PrivilegeRefused(i)
    /\ ReplyTooLarge(i)
    /\ req[i].output_buffer_length > 0
    /\ completions[i] = 1
    /\ completed_status[i] = "STATUS_ACCESS_DENIED"

\* What the handler is given is the low 16 bits of each length (the casts of
\* lines 509 and 511), which is the length itself below 65536 only.
HandlerLengthsTruncated == \A i \in RequestNumbers :
    handler_calls[i] = 1 =>
        /\ handler_input_length[i] = actual_input_length[i] % UINT16_RANGE
        /\ handler_output_length[i] = actual_output_length[i] % UINT16_RANGE
        /\ actual_input_length[i] < UINT16_RANGE => handler_input_length[i] = actual_input_length[i]
        /\ actual_output_length[i] < UINT16_RANGE => handler_output_length[i] = actual_output_length[i]

\* C32: the input length and the output capacity the dispatcher hands to the
\* handler are the actual lengths of the caller's buffers, for every buffer
\* length, those of 65536 bytes and more included.
C32_HandlerGetsActualLengths == \A i \in RequestNumbers :
    handler_calls[i] = 1 =>
        /\ handler_input_length[i] = actual_input_length[i]
        /\ handler_output_length[i] = actual_output_length[i]

\* C33: drain never waits for a signal that cannot come.  When both lists are
\* empty as drain asks for the event, drain returns Drained at once; the
\* removal that empties the lists after that finds the request and signals; so
\* drain is never waiting with both lists empty and the event not signaled, and
\* its wait times out only with an item still listed.
C33_DrainNeverWaitsInVain ==
    /\ [](drain_pc.pc = "waiting" /\ CleanupListsEmpty => wfp_filter_cleanup_event)
    /\ [][DrainArm /\ CleanupListsEmpty => drain_result' = "Drained"]_all_vars
    /\ [][DrainTimeout => ~CleanupListsEmpty]_all_vars

\* drain found both lists empty as it asked for the event and returned Drained
\* without a wait and without a signal.
C33_Witness ==
    /\ drain_result = "Drained"
    /\ drain_pc.pending = 0
    /\ signal_count = 0
    /\ ~wfp_filter_cleanup_event

\* Somebody still has an operation to perform on the filter context: a deletion
\* callback is outstanding, filters are being added or deleted, a client is
\* attached and has its detach to make, or the context is being cleaned up.
OperationOutstanding ==
    \/ wfp_deleting # {}
    \/ add.pc # "idle"
    \/ delete_pc.pc = "delete_filters"
    \/ client_context_count > 0
    \/ finalize_pc \in {"leave_rundown", "cleanup_list", "free"}

\* A step that performs an operation on the filter context: a deletion
\* callback, an attach, a detach, a dereference or the removal from the
\* cleanup list.
TouchesFilterContext ==
    \/ reference_count' # reference_count
    \/ client_contexts' # client_contexts
    \/ client_context_count' # client_context_count
    \/ filter_ids' # filter_ids
    \/ filter_cleanup_list' # filter_cleanup_list
    \/ call' # call
    \/ \E id \in wfp_deleting : net_ebpf_ext_filter_change_notify(id)

\* C34: no operation touches a filter context after its memory is reclaimed.
\* In every interleaving of the last detach with the outstanding deletion
\* callbacks, a context that somebody has still an operation to perform on is
\* not freed; no deletion callback, attach, detach, dereference or removal from
\* the cleanup list is a step on a freed context; and the context is freed only
\* with its reference count at zero.
C34_NothingTouchesFreedContext ==
    /\ [](OperationOutstanding => filter_context = "allocated")
    /\ [][TouchesFilterContext => filter_context # "freed"]_all_vars
    /\ [][filter_context' = "freed" /\ filter_context # "freed" =>
            reference_count = 0 /\ finalize_pc = "free"]_all_vars
    /\ [](filter_context = "freed" => reference_count = 0 /\ free_count = 1)

\* The context was freed after the last deletion callback, which came after the
\* last detach: three rules deleted, a client that was attached and is gone.
C34_Witness ==
    /\ filter_context = "freed"
    /\ Cardinality(RulesInState(NET_EBPF_EXT_WFP_FILTER_DELETED)) = 3
    /\ call.op = "detach"
    /\ call.result = "removed"
    /\ wfp_deleting = {}

(***************************************************************************)
(*                      Properties of the driver's life                    *)
(***************************************************************************)
\* A dispatch is on its way to the privilege check.
PrivilegeCheckPossible == \E f \in Files : file[f] = "dispatch"

\* C35: the security descriptor the privilege check reads exists whenever a
\* privilege check runs.  It is built once, before the device is open for
\* commands; the unload routine frees it only when no file object is left, so
\* that no dispatch can still check a privilege; no privilege check reads a
\* NULL descriptor.
C35_DescriptorExistsAtPrivilegeCheck ==
    /\ [](null_reads = 0)
    /\ [](build_count <= 1)
    /\ [](accepting \/ PrivilegeCheckPossible =>
            ebpf_execution_context_privileged_security_descriptor = "allocated")
    /\ [][UnloadFree => \A f \in Files : file[f] = "closed"]_all_vars
    /\ [][\E f \in Files : PrivilegeCheck(f) =>
            ebpf_execution_context_privileged_security_descriptor = "allocated"]_all_vars

\* The driver was unloaded and the descriptor freed after two privilege checks
\* had run.
C35_Witness ==
    /\ driver_pc = "unloaded"
    /\ ebpf_execution_context_privileged_security_descriptor = "NULL"
    /\ build_count = 1
    /\ privilege_checks = 2
    /\ null_reads = 0

=============================================================================
